---- MODULE Spec2Model ----
(***************************************************************************)
(* Coordination detection engine of Purisa                                 *)
(* (backend/purisa/services/coordination.py, similarity.py and the         *)
(* coordination tables of backend/purisa/database/coordination_models.py). *)
(*                                                                         *)
(* Scores and weights of analyze_hour are exact rationals <<n, d>> in      *)
(* lowest terms with d > 0; get_spikes rounds its mean and deviation to    *)
(* Precision significant bits, as floating point does.                     *)
(* Timestamps are seconds counted from the start of hour 0; the wall clock *)
(* that stamps cluster ids is a minute counter.                            *)
(***************************************************************************)
EXTENDS Integers, Sequences, FiniteSets, TLC

VARIABLES
    posts,          \* rows of the posts table (PostDB)
    config,         \* the CoordinationConfig the analyzer was constructed with
    clock,          \* wall-clock minute, read by datetime.now() for cluster ids
    metrics,        \* rows of coordination_metrics (CoordinationMetricDB)
    cluster_rows,   \* rows of coordination_clusters, in insertion order
    member_rows,    \* rows of cluster_members, in insertion order
    edge_rows,      \* rows of account_edges (AccountEdgeDB), in insertion order
    result,         \* what the last call returned (CoordinationResult / spike list)
    graph,          \* the graph the last analyze_hour built (NoGraph if none)
    runs,           \* number of analyze_hour calls made so far
    history,        \* one entry per analyze_hour call: what it computed and stored
    call,           \* the analyze_range call in progress: its arguments and loop state
    sessions        \* analyze_hour calls under way side by side, one per database session

vars == <<posts, config, clock, metrics, cluster_rows, member_rows, edge_rows, result,
          graph, runs, history, call, sessions>>

(***************************************************************************)
(* Bounds of the model.                                                    *)
(***************************************************************************)
MaxRuns == 2        \* at most this many analyze_hour calls
MaxClock == 1       \* the wall clock advances at most this many minutes
MaxMetrics == 11    \* at most this many stored hourly metrics in the spike runs

(***************************************************************************)
(* Exact rationals.                                                        *)
(***************************************************************************)
Abs(x) == IF x < 0 THEN 0 - x ELSE x

RECURSIVE GCD(_, _)
GCD(a, b) == IF b = 0 THEN a ELSE GCD(b, a % b)

Rat(n, d) ==
    LET g == GCD(Abs(n), Abs(d))
        s == IF d < 0 THEN 0 - 1 ELSE 1
    IN  <<(s * n) \div g, (s * d) \div g>>

Zero == Rat(0, 1)
RInt(n) == Rat(n, 1)
RAdd(x, y) == Rat(x[1] * y[2] + y[1] * x[2], x[2] * y[2])
RSub(x, y) == Rat(x[1] * y[2] - y[1] * x[2], x[2] * y[2])
RMul(x, y) == Rat(x[1] * y[1], x[2] * y[2])
RDiv(x, y) == Rat(x[1] * y[2], x[2] * y[1])
RLt(x, y) == x[1] * y[2] < y[1] * x[2]
RLeq(x, y) == x[1] * y[2] <= y[1] * x[2]
RMin(x, y) == IF RLt(y, x) THEN y ELSE x

RECURSIVE SumOver(_, _)
\* Sum of f[x] over the finite set S; f maps to integers.
SumOver(S, f) ==
    IF S = {} THEN 0
    ELSE LET x == CHOOSE y \in S : TRUE IN f[x] + SumOver(S \ {x}, f)

RECURSIVE RSumOver(_, _)
\* Sum of f[x] over the finite set S; f maps to rationals.
RSumOver(S, f) ==
    IF S = {} THEN Zero
    ELSE LET x == CHOOSE y \in S : TRUE IN RAdd(f[x], RSumOver(S \ {x}, f))

Range(s) == {s[i] : i \in 1..Len(s)}

\* the function f restricted to S, with every value computed once
Tabulate(S, f) == [x \in S |-> f[x]] @@ <<>>

(***************************************************************************)
(* Post content.  A content string is modelled as the sequence of its      *)
(* whitespace-separated tokens: plain words, #hashtags and URLs.  Case and *)
(* length of the strings that occur are tabulated, so that lower-casing    *)
(* and the length test are computed, not assumed.                          *)
(***************************************************************************)
W(t) == [kind |-> "word", text |-> t, scheme |-> "", host |-> "", path |-> "", query |-> ""]
T(t) == [kind |-> "tag", text |-> t, scheme |-> "", host |-> "", path |-> "", query |-> ""]
U(s, h, p, q) == [kind |-> "url", text |-> "", scheme |-> s, host |-> h, path |-> p, query |-> q]

\* str.lower() on the strings of the catalogue
Lower(s) ==
    CASE s = "Weekend" -> "weekend"
      [] s = "Promo" -> "promo"
      [] s = "Example.com" -> "example.com"
      [] s = "/Path" -> "/path"
      [] s = "HTTPS" -> "https"
      [] s = "EXAMPLE.COM" -> "example.com"
      [] OTHER -> s

\* len() of the lower-cased words of the catalogue
StrLen(s) ==
    CASE s \in {"out"} -> 3
      [] s \in {"this"} -> 4
      [] s \in {"check", "chess", "study"} -> 5
      [] s \in {"coffee", "hiking", "garden"} -> 6
      [] s \in {"morning", "weekend", "endgame"} -> 7
      [] s \in {"thoughts", "pictures", "tomatoes", "ripening"} -> 8
      [] OTHER -> 0

\* the members of sklearn's English stop word list among the catalogue's words
StopWords == {"this", "out"}

PROMO == <<W("check"), W("this"), W("out"), T("promo")>>      \* "check this out #promo"
COFFEE == <<W("morning"), W("coffee"), W("thoughts")>>        \* "morning coffee thoughts"
\* "Weekend hiking pictures https://example.com/Path?x=1"
HIKING == <<W("Weekend"), W("hiking"), W("pictures"), U("https", "example.com", "/Path", "x=1")>>
\* "check this out #Promo https://Example.com/Path?x=1"
LINK == <<W("check"), W("this"), W("out"), T("Promo"), U("https", "Example.com", "/Path", "x=1")>>
GARDEN == <<W("garden"), W("tomatoes"), W("ripening")>>      \* "garden tomatoes ripening"
CHESS == <<W("chess"), W("endgame"), W("study")>>            \* "chess endgame study"
URL_MIXED == <<U("https", "Example.com", "/Path", "x=1")>>   \* "https://Example.com/Path?x=1"
URL_LOWER == <<U("https", "example.com", "/path", "x=1")>>   \* "https://example.com/path?x=1"
URL_UPPER == <<U("HTTPS", "EXAMPLE.COM", "/Path", "x=1")>>   \* "HTTPS://EXAMPLE.COM/Path?x=1"

(***************************************************************************)
(* similarity.py: extract_urls, extract_hashtags, preprocess_text          *)
(***************************************************************************)
\* a normalisation that folds the case of the path as well
extract_urls_folded(content) ==
    {[scheme |-> Lower(content[i].scheme), host |-> Lower(content[i].host),
      path |-> Lower(content[i].path), query |-> content[i].query] :
        i \in {k \in 1..Len(content) : content[k].kind = "url"}}

\* extract_urls: the scheme as urlparse returns it (lower-cased), netloc
\* lower-cased, path and query verbatim
extract_urls(content) ==
    {[scheme |-> Lower(content[i].scheme), host |-> Lower(content[i].host),
      path |-> content[i].path, query |-> content[i].query] :
        i \in {k \in 1..Len(content) : content[k].kind = "url"}}

\* extract_hashtags: the set of lower-cased tags, without '#'
extract_hashtags(content) ==
    {Lower(content[i].text) : i \in {k \in 1..Len(content) : content[k].kind = "tag"}}

IsWord(tok) == tok.kind = "word"

\* preprocess_text: lower-case, drop URLs, hashtags and mentions, collapse blanks.
\* The result is the sequence of remaining words (joined by single blanks).
preprocess_text(content) ==
    LET ws == SelectSeq(content, IsWord)
    IN  [i \in 1..Len(ws) |-> Lower(ws[i].text)]

\* len() of the preprocessed text: the words plus one blank between neighbours
ProcessedLen(ws) ==
    IF Len(ws) = 0 THEN 0
    ELSE SumOver(1..Len(ws), [i \in 1..Len(ws) |-> StrLen(ws[i])]) + (Len(ws) - 1)

(***************************************************************************)
(* The posts table.  The model draws its rows from a fixed universe of     *)
(* posts and comments of four accounts.  id doubles as insertion order,    *)
(* which is the order an unordered query returns the rows in.              *)
(***************************************************************************)
NoParent == 0
Platform == "bluesky"

MkPost(i, a, pf, c, t, par, ty) ==
    [id |-> i, account_id |-> a, platform |-> pf, content |-> c, created_at |-> t,
     parent_id |-> par, post_type |-> ty]

PostUniverse ==
    { MkPost(1, "a", Platform, PROMO, 85, NoParent, "post"),
      MkPost(2, "b", Platform, PROMO, 95, NoParent, "post"),
      MkPost(3, "c", Platform, COFFEE, 0, NoParent, "post"),
      MkPost(4, "d", Platform, HIKING, 180, NoParent, "post"),
      MkPost(5, "a", Platform, LINK, 90, NoParent, "post"),
      MkPost(6, "c", Platform, COFFEE, 100, 1, "comment"),
      MkPost(7, "d", Platform, HIKING, 110, 1, "comment") }

\* five posts of five accounts that no signal links: different words, no
\* hashtag or URL in common, ten minutes apart
UnrelatedPosts ==
    { MkPost(11, "a", Platform, PROMO, 0, NoParent, "post"),
      MkPost(12, "b", Platform, GARDEN, 600, NoParent, "post"),
      MkPost(13, "c", Platform, COFFEE, 1200, NoParent, "post"),
      MkPost(14, "d", Platform, HIKING, 1800, NoParent, "post"),
      MkPost(15, "e", Platform, CHESS, 2400, NoParent, "post") }

\* three posts of three accounts that link to one page, written with
\* different case in scheme, host or path, ten minutes apart
LinkPosts ==
    { MkPost(21, "a", Platform, URL_MIXED, 300, NoParent, "post"),
      MkPost(22, "b", Platform, URL_LOWER, 900, NoParent, "post"),
      MkPost(23, "c", Platform, URL_UPPER, 1500, NoParent, "post") }

\* account a links to one page in two posts, account b in one, ten minutes
\* apart
RepostPosts ==
    { MkPost(31, "a", Platform, URL_MIXED, 300, NoParent, "post"),
      MkPost(32, "a", Platform, URL_UPPER, 900, NoParent, "post"),
      MkPost(33, "b", Platform, URL_MIXED, 1500, NoParent, "post") }

\* three posts of hour 0 that synchronized posting links, and posts like
\* them an hour later
EarlyPosts == {p \in PostUniverse : p.id \in {1, 2, 3}}

LaterPosts ==
    { MkPost(41, "a", Platform, PROMO, 3685, NoParent, "post"),
      MkPost(42, "b", Platform, PROMO, 3695, NoParent, "post"),
      MkPost(43, "c", Platform, COFFEE, 3600, NoParent, "post") }

\* the contents of the posts table analyze_range is run on: posts in both
\* hours, in one, or too few to analyse
RangePostSets == {early \cup later : early \in {{}, EarlyPosts}, later \in SUBSET LaterPosts}

\* the contents of the posts table the model starts from
PostSets ==
    (SUBSET PostUniverse) \cup {UnrelatedPosts, RepostPosts}
        \cup {S \in SUBSET LinkPosts : Cardinality(S) >= 2}

Hours == {0, 1}
HourStart(h) == 3600 * h

(***************************************************************************)
(* coordination.py: CoordinationConfig.  The dataclass validates nothing,  *)
(* so any values can be given; the model constructs the analyzer with the  *)
(* defaults, with small thresholds, with a high density threshold, with a  *)
(* negative scoring weight, or with a weight of 0 for synchronized posts.  *)
(***************************************************************************)
DefaultConfig ==
    [ sync_window_seconds |-> 90,
      text_similarity_threshold |-> Rat(8, 10),
      min_hashtag_overlap |-> 2,
      min_cluster_size |-> 3,
      min_cluster_density |-> Rat(3, 10),
      louvain_resolution |-> Rat(1, 1),
      sync_weight |-> Rat(1, 1),
      url_weight |-> Rat(3, 2),
      text_weight |-> Rat(1, 1),
      hashtag_weight |-> Rat(1, 2),
      reply_pattern_weight |-> Rat(8, 10),
      cluster_coverage_weight |-> Rat(4, 10),
      density_weight |-> Rat(3, 10),
      sync_rate_weight |-> Rat(3, 10) ]

PairConfig == [DefaultConfig EXCEPT !.min_cluster_size = 2, !.min_hashtag_overlap = 1]

NegativeConfig == [DefaultConfig EXCEPT !.sync_rate_weight = Rat(0 - 3, 10)]

DenseConfig == [DefaultConfig EXCEPT !.min_cluster_density = Rat(6, 10)]

ZeroWeightConfig == [DefaultConfig EXCEPT !.sync_weight = Zero]

Configs == {DefaultConfig, PairConfig, DenseConfig, NegativeConfig, ZeroWeightConfig}

(***************************************************************************)
(* Sequence helpers                                                        *)
(***************************************************************************)
RECURSIVE SortById(_)
\* the rows of S in insertion (id) order
SortById(S) ==
    IF S = {} THEN <<>>
    ELSE LET p == CHOOSE x \in S : \A y \in S : x.id <= y.id
         IN  <<p>> \o SortById(S \ {p})

RECURSIVE PairsFrom(_, _, _)
PairsFrom(i, j, n) ==
    IF i >= n THEN <<>>
    ELSE IF j > n THEN PairsFrom(i + 1, i + 2, n)
    ELSE <<<<i, j>>>> \o PairsFrom(i, j + 1, n)

\* <<1,2>>, <<1,3>>, ..., <<n-1,n>>: the order of "for i: for j in [i+1:]"
IndexPairs(n) == PairsFrom(1, 2, n)

RECURSIVE Concat(_)
Concat(ss) == IF Len(ss) = 0 THEN <<>> ELSE Head(ss) \o Concat(Tail(ss))

\* accounts in a fixed order (used where the code iterates a Python set)
AccountOrder == <<"a", "b", "c", "d", "e">>
Accounts == Range(AccountOrder)
AccountRank(a) == CHOOSE i \in 1..Len(AccountOrder) : AccountOrder[i] = a

RECURSIVE SortAccounts(_)
SortAccounts(S) ==
    IF S = {} THEN <<>>
    ELSE LET a == CHOOSE x \in S : \A y \in S : AccountRank(x) <= AccountRank(y)
         IN  <<a>> \o SortAccounts(S \ {a})

(***************************************************************************)
(* coordination.py: _get_posts_in_window                                   *)
(***************************************************************************)
_get_posts_in_window(rows, platform, start, end) ==
    SortById({p \in rows : /\ p.platform = platform
                           /\ p.created_at >= start
                           /\ p.created_at < end
                           /\ p.post_type = "post"})

\* post_data = [(p.id, p.account_id, p.content or '') for p in posts]
PostData(ps) ==
    [i \in 1..Len(ps) |-> [id |-> ps[i].id, account_id |-> ps[i].account_id,
                           content |-> ps[i].content]]

(***************************************************************************)
(* coordination.py: _find_synchronized_pairs                               *)
(***************************************************************************)
RECURSIVE InsertByTime(_, _)
\* insert p behind every element that is not later than it (a stable sort)
InsertByTime(s, p) ==
    IF Len(s) = 0 THEN <<p>>
    ELSE IF Head(s).created_at <= p.created_at THEN <<Head(s)>> \o InsertByTime(Tail(s), p)
    ELSE <<p>> \o s

RECURSIVE SortByTime(_)
\* sorted(posts, key=lambda p: p.created_at)
SortByTime(ps) ==
    IF Len(ps) = 0 THEN <<>>
    ELSE InsertByTime(SortByTime(SubSeq(ps, 1, Len(ps) - 1)), ps[Len(ps)])

\* the test that keeps a post from being paired with a post of its own account
DifferentAccountsUnchecked(p1, p2) == TRUE
DifferentAccounts(p1, p2) == p1.account_id # p2.account_id

SyncEdge(p1, p2) ==
    [a1 |-> p1.account_id, a2 |-> p2.account_id,
     evidence |-> [time_diff_seconds |-> p2.created_at - p1.created_at,
                   post1_id |-> p1.id, post2_id |-> p2.id]]

\* "if time_diff > self.config.sync_window_seconds: break"
OutOfWindowStrict(time_diff, window) == time_diff >= window
OutOfWindow(time_diff, window) == time_diff > window

RECURSIVE SyncScan(_, _, _, _)
\* the inner loop from position j on; it stops at the first post out of the window
SyncScan(sorted, i, j, window) ==
    IF j > Len(sorted) THEN <<>>
    ELSE IF OutOfWindow(sorted[j].created_at - sorted[i].created_at, window) THEN <<>>
    ELSE (IF DifferentAccounts(sorted[i], sorted[j])
            THEN <<SyncEdge(sorted[i], sorted[j])>> ELSE <<>>)
         \o SyncScan(sorted, i, j + 1, window)

_find_synchronized_pairs(ps, cfg) ==
    LET sorted == SortByTime(ps)
    IN  Concat([i \in 1..Len(sorted) |-> SyncScan(sorted, i, i + 1, cfg.sync_window_seconds)])

(***************************************************************************)
(* coordination.py: _find_reply_pattern_pairs                              *)
(***************************************************************************)
RECURSIVE ParentsInOrder(_, _)
\* keys of posts_by_parent in first-seen order
ParentsInOrder(ps, seen) ==
    IF Len(ps) = 0 THEN <<>>
    ELSE IF Head(ps).parent_id # NoParent /\ Head(ps).parent_id \notin seen
         THEN <<Head(ps).parent_id>> \o ParentsInOrder(Tail(ps), seen \cup {Head(ps).parent_id})
         ELSE ParentsInOrder(Tail(ps), seen)

ReplyEdgesOf(ps, parent) ==
    LET comments == {i \in 1..Len(ps) : ps[i].parent_id = parent}
        accounts == SortAccounts({ps[i].account_id : i \in comments})
        pairs == IndexPairs(Len(accounts))
    IN  IF Cardinality(comments) < 2 THEN <<>>
        ELSE [k \in 1..Len(pairs) |->
                [a1 |-> accounts[pairs[k][1]], a2 |-> accounts[pairs[k][2]],
                 evidence |-> [parent_id |-> parent,
                               comment_count |-> Cardinality(comments)]]]

_find_reply_pattern_pairs(ps) ==
    LET parents == ParentsInOrder(ps, {})
    IN  Concat([k \in 1..Len(parents) |-> ReplyEdgesOf(ps, parents[k])])

(***************************************************************************)
(* similarity.py: find_url_sharing_pairs                                   *)
(***************************************************************************)
RECURSIVE SetToSeq(_)
\* one iteration order of a Python set
SetToSeq(S) ==
    IF S = {} THEN <<>>
    ELSE LET x == CHOOSE y \in S : TRUE IN <<x>> \o SetToSeq(S \ {x})

RECURSIVE UrlKeys(_, _)
\* keys of url_to_posts in first-seen order
UrlKeys(pd, seen) ==
    IF Len(pd) = 0 THEN <<>>
    ELSE LET new == SetToSeq(extract_urls(Head(pd).content) \ seen)
         IN  new \o UrlKeys(Tail(pd), seen \cup Range(new))

UrlCandidatesOf(pd, url) ==
    LET with == SelectSeq(pd, LAMBDA p : url \in extract_urls(p.content))
        pairs == IndexPairs(Len(with))
        cross == SelectSeq(pairs, LAMBDA ij : with[ij[1]].account_id # with[ij[2]].account_id)
    IN  IF Len(with) < 2 THEN <<>>
        ELSE [k \in 1..Len(cross) |->
                [item1_id |-> with[cross[k][1]].id, item2_id |-> with[cross[k][2]].id,
                 similarity_score |-> Rat(1, 1), similarity_type |-> "url",
                 evidence |-> [account1 |-> with[cross[k][1]].account_id,
                               account2 |-> with[cross[k][2]].account_id,
                               shared_url |-> url]]]

RECURSIVE DropSeenPairs(_, _)
\* seen_pairs: a pair of posts is emitted for the first URL it shares only
DropSeenPairs(rs, seen) ==
    IF Len(rs) = 0 THEN <<>>
    ELSE LET key == {Head(rs).item1_id, Head(rs).item2_id}
         IN  IF key \in seen THEN DropSeenPairs(Tail(rs), seen)
             ELSE <<Head(rs)>> \o DropSeenPairs(Tail(rs), seen \cup {key})

find_url_sharing_pairs(pd) ==
    LET with_urls == SelectSeq(pd, LAMBDA p : extract_urls(p.content) # {})
        keys == UrlKeys(with_urls, {})
    IN  IF Len(pd) < 2 \/ Len(with_urls) < 2 THEN <<>>
        ELSE DropSeenPairs(Concat([k \in 1..Len(keys) |-> UrlCandidatesOf(with_urls, keys[k])]), {})

(***************************************************************************)
(* similarity.py: find_hashtag_overlap_pairs                               *)
(***************************************************************************)
find_hashtag_overlap_pairs(pd, min_overlap) ==
    LET tagged == SelectSeq(pd, LAMBDA p : Cardinality(extract_hashtags(p.content)) >= min_overlap)
        tags(i) == extract_hashtags(tagged[i].content)
        pairs == IndexPairs(Len(tagged))
        hits == SelectSeq(pairs, LAMBDA ij :
                    /\ tagged[ij[1]].account_id # tagged[ij[2]].account_id
                    /\ Cardinality(tags(ij[1]) \cap tags(ij[2])) >= min_overlap)
    IN  IF Len(pd) < 2 \/ Len(tagged) < 2 THEN <<>>
        ELSE [k \in 1..Len(hits) |->
                LET h1 == tags(hits[k][1])
                    h2 == tags(hits[k][2])
                IN  [item1_id |-> tagged[hits[k][1]].id, item2_id |-> tagged[hits[k][2]].id,
                     similarity_score |->
                        IF h1 \cup h2 = {} THEN Zero
                        ELSE Rat(Cardinality(h1 \cap h2), Cardinality(h1 \cup h2)),
                     similarity_type |-> "hashtag",
                     evidence |-> [account1 |-> tagged[hits[k][1]].account_id,
                                   account2 |-> tagged[hits[k][2]].account_id,
                                   shared_hashtags |-> h1 \cap h2,
                                   overlap_count |-> Cardinality(h1 \cap h2)]]]

(***************************************************************************)
(* similarity.py: TextSimilarityCalculator.find_similar_pairs              *)
(*                                                                         *)
(* TfidfVectorizer(ngram_range=(1, 2), min_df=1, max_df=0.95,              *)
(* stop_words='english'): the features of a document are the unigrams and  *)
(* bigrams of its tokens of two or more characters that are no stop words; *)
(* a feature found in more than 0.95 * n of the n documents is pruned, and *)
(* fit_transform raises when no feature is left.  The catalogue's texts    *)
(* are pairwise equal or without a common token, so that the cosine of two *)
(* tf-idf vectors is exactly 1 (same features, not all pruned) or 0.       *)
(***************************************************************************)
MinTextLength == 10

Tokens(ws) == SelectSeq(ws, LAMBDA w : w \notin StopWords /\ StrLen(w) >= 2)

Features(ws) ==
    LET ts == Tokens(ws)
    IN  {<<ts[i]>> : i \in 1..Len(ts)} \cup {<<ts[i], ts[i + 1]>> : i \in 1..(Len(ts) - 1)}

\* the vocabulary fit_transform keeps for the documents docs (a sequence of
\* word sequences): max_df = 0.95 drops the terms of more than 95% of them
Vocabulary(docs) ==
    LET n == Len(docs)
        all == UNION {Features(docs[i]) : i \in 1..n}
        df(f) == Cardinality({i \in 1..n : f \in Features(docs[i])})
    IN  {f \in all : 100 * df(f) <= 95 * n}

\* cosine_similarity of the tf-idf rows of documents i and j over vocabulary voc
Cosine(docs, voc, i, j) ==
    LET fi == Features(docs[i]) \cap voc
        fj == Features(docs[j]) \cap voc
    IN  IF fi # {} /\ fi = fj THEN Rat(1, 1) ELSE Zero

find_similar_pairs(pd, threshold) ==
    LET valid == SelectSeq(pd, LAMBDA p : ProcessedLen(preprocess_text(p.content)) >= MinTextLength)
        docs == [i \in 1..Len(valid) |-> preprocess_text(valid[i].content)]
        voc == Vocabulary(docs)
        pairs == IndexPairs(Len(valid))
        hits == SelectSeq(pairs, LAMBDA ij :
                    /\ RLeq(threshold, Cosine(docs, voc, ij[1], ij[2]))
                    /\ valid[ij[1]].account_id # valid[ij[2]].account_id)
    IN  IF Len(pd) < 2 \/ Len(valid) < 2 THEN <<>>
        ELSE IF voc = {} THEN <<>>    \* fit_transform raised: caught, []
        ELSE [k \in 1..Len(hits) |->
                [item1_id |-> valid[hits[k][1]].id, item2_id |-> valid[hits[k][2]].id,
                 similarity_score |-> Cosine(docs, voc, hits[k][1], hits[k][2]),
                 similarity_type |-> "text",
                 evidence |-> [account1 |-> valid[hits[k][1]].account_id,
                               account2 |-> valid[hits[k][2]].account_id]]]

(***************************************************************************)
(* coordination.py: the graph (networkx.Graph).  An undirected edge is     *)
(* keyed by the set of its end points; a self-loop would be keyed by a     *)
(* singleton.  Each edge carries weight, types and evidence (by type).     *)
(***************************************************************************)
NoGraph == [nodes |-> {}, edges |-> <<>>]

EmptyGraph(account_ids) == [nodes |-> account_ids, edges |-> <<>>]

HasEdge(G, a1, a2) == {a1, a2} \in DOMAIN G.edges

PutEdge(G, a1, a2, data) ==
    [nodes |-> G.nodes \cup {a1, a2},
     edges |-> ({a1, a2} :> data) @@ G.edges]

\* an update that sets the weight instead of adding to it
MergedReset(G, a1, a2, ty, w, ev) ==
    IF HasEdge(G, a1, a2)
    THEN LET old == G.edges[{a1, a2}]
         IN  [weight |-> w,
              types |-> old.types \cup {ty},
              evidence |-> (ty :> ev) @@ old.evidence]
    ELSE [weight |-> w, types |-> {ty}, evidence |-> (ty :> ev)]

\* the edge data after one more signal of type ty with weight w and evidence ev
Merged(G, a1, a2, ty, w, ev) ==
    IF HasEdge(G, a1, a2)
    THEN LET old == G.edges[{a1, a2}]
         IN  [weight |-> RAdd(old.weight, w),
              types |-> old.types \cup {ty},
              evidence |-> (ty :> ev) @@ old.evidence]
    ELSE [weight |-> w, types |-> {ty}, evidence |-> (ty :> ev)]

_add_edge(G, edge, edge_type, weight) ==
    PutEdge(G, edge.a1, edge.a2,
            Merged(G, edge.a1, edge.a2, edge_type, weight, edge.evidence))

_add_edge_from_result(G, res, weight) ==
    LET a1 == res.evidence.account1
        a2 == res.evidence.account2
    IN  IF a1 = a2 THEN G
        ELSE PutEdge(G, a1, a2,
                     Merged(G, a1, a2, res.similarity_type,
                            RMul(weight, res.similarity_score), res.evidence))

RECURSIVE AddEdges(_, _, _, _)
AddEdges(G, edges, edge_type, weight) ==
    IF Len(edges) = 0 THEN G
    ELSE AddEdges(_add_edge(G, Head(edges), edge_type, weight), Tail(edges), edge_type, weight)

RECURSIVE AddResults(_, _, _)
AddResults(G, results, weight) ==
    IF Len(results) = 0 THEN G
    ELSE AddResults(_add_edge_from_result(G, Head(results), weight), Tail(results), weight)

_build_network(ps, cfg) ==
    LET pd == PostData(ps)
        G0 == EmptyGraph({ps[i].account_id : i \in 1..Len(ps)})
        G1 == AddEdges(G0, _find_synchronized_pairs(ps, cfg), "synchronized_posting",
                       cfg.sync_weight)
        G2 == AddResults(G1, find_url_sharing_pairs(pd), cfg.url_weight)
        G3 == AddResults(G2, find_similar_pairs(pd, cfg.text_similarity_threshold),
                         cfg.text_weight)
        G4 == AddResults(G3, find_hashtag_overlap_pairs(pd, cfg.min_hashtag_overlap),
                         cfg.hashtag_weight)
    IN  AddEdges(G4, _find_reply_pattern_pairs(ps), "reply_pattern",
                 cfg.reply_pattern_weight)

number_of_edges(G) == Cardinality(DOMAIN G.edges)

(***************************************************************************)
(* networkx: louvain_communities(G, resolution, weight='weight'), called   *)
(* without a seed by _detect_clusters.  Each level shuffles the nodes with *)
(* the global random generator and sweeps them in that order until no node *)
(* moves; a node moves to the neighbouring community of largest positive   *)
(* modularity gain.  The communities of a level are the nodes of the next. *)
(* The model runs the algorithm for every visiting order, so the result is *)
(* the set of partitions a call can return.  Where two communities offer   *)
(* the same largest gain the library takes the one it meets first in its   *)
(* adjacency dict; the model allows either.  Gains are compared exactly:   *)
(* weights are scaled to integers and a gain is multiplied by 2*m*m.  A    *)
(* level that moved a node raised the modularity by more than the          *)
(* threshold of 1e-7 at these weights, so the next level is always run.    *)
(* The returned list is in the order of the nodes whose places the         *)
(* communities took; the nodes were added from a Python set of account     *)
(* ids, so the model allows the list in any order.                         *)
(***************************************************************************)
LCM(a, b) == (a * b) \div GCD(a, b)

RECURSIVE LCMOver(_)
LCMOver(S) ==
    IF S = {} THEN 1
    ELSE LET x == CHOOSE y \in S : TRUE IN LCM(x, LCMOver(S \ {x}))

\* the edge weights of G as integers in a common unit
IntWeights(G) ==
    LET unit == LCMOver({G.edges[k].weight[2] : k \in DOMAIN G.edges})
    IN  Tabulate(DOMAIN G.edges,
                 [k \in DOMAIN G.edges |->
                     G.edges[k].weight[1] * (unit \div G.edges[k].weight[2])])

\* graph.size(weight='weight')
TotalWeight(w) == SumOver(DOMAIN w, w)

\* G.degree(weight='weight') of node u: a self-loop counts twice
NodeDegree(w, u) ==
    SumOver({k \in DOMAIN w : u \in k}, [k \in DOMAIN w |-> IF k = {u} THEN 2 * w[k] ELSE w[k]])

\* a block is a node of the current level: a set of accounts
BlockDegree(w, B) == SumOver(B, [u \in B |-> NodeDegree(w, u)])

Between(w, B1, B2) ==
    {k \in DOMAIN w : k \cap B1 # {} /\ k \cap B2 # {} /\ Cardinality(k) = 2}

BlockWeight(w, B1, B2) == SumOver(Between(w, B1, B2), w)

Neighbours(w, blocks, B) == {B2 \in blocks \ {B} : Between(w, B, B2) # {}}

\* what a level computes once: the total weight, and per block its degree
\* and the weight that joins it to each neighbouring block
LevelTables(w, blocks) ==
    [m |-> TotalWeight(w),
     deg |-> Tabulate(blocks, [B \in blocks |-> BlockDegree(w, B)]),
     nbrs |-> Tabulate(blocks, [B \in blocks |->
                 LET ns == Neighbours(w, blocks, B)
                 IN  Tabulate(ns, [B2 \in ns |-> BlockWeight(w, B, B2)])])]

Stot(lt, com, c) ==
    LET in == {B \in DOMAIN com : com[B] = c}
    IN  SumOver(in, lt.deg)

\* the communities block B can be in after it has been visited
VisitOutcomes(lt, res, com, B) ==
    LET own == com[B]
        deg == lt.deg[B]
        nbrs == lt.nbrs[B]
        cands == {com[B2] : B2 \in DOMAIN nbrs}
        w2c(c) == SumOver({B2 \in DOMAIN nbrs : com[B2] = c}, nbrs)
        stot(c) == Stot(lt, com, c) - (IF c = own THEN deg ELSE 0)
        own_w == w2c(own)
        own_stot == stot(own)
        gain == Tabulate(cands, [c \in cands |->
                    res[2] * 2 * lt.m * (w2c(c) - own_w) + res[1] * deg * (own_stot - stot(c))])
        best == {c \in cands : gain[c] > 0 /\ \A c2 \in cands : gain[c2] <= gain[c]}
    IN  IF best = {} THEN {com}
        ELSE {[com EXCEPT ![B] = c] : c \in best}

RECURSIVE Pass(_, _, _, _, _)
\* one sweep "for u in rand_nodes", from position i on
Pass(lt, res, order, i, com) ==
    IF i > Len(order) THEN {com}
    ELSE UNION {Pass(lt, res, order, i + 1, c2) : c2 \in VisitOutcomes(lt, res, com, order[i])}

RECURSIVE OneLevel(_, _, _, _)
\* _one_level: sweeps are repeated until one moves nothing
OneLevel(lt, res, order, com) ==
    UNION {IF c2 = com THEN {com} ELSE OneLevel(lt, res, order, c2) :
              c2 \in Pass(lt, res, order, 1, com)}

\* the orders seed.shuffle can leave the nodes in
Orders(S) ==
    {f \in [1..Cardinality(S) -> S] : \A i, j \in 1..Cardinality(S) : f[i] = f[j] => i = j}

Merge(com) == {UNION {B \in DOMAIN com : com[B] = c} : c \in {com[B] : B \in DOMAIN com}}

RECURSIVE LouvainFrom(_, _, _)
\* louvain_partitions from a level whose nodes are blocks, to the last partition
LouvainFrom(w, res, blocks) ==
    LET start == Tabulate(blocks, [B \in blocks |-> B])
        lt == LevelTables(w, blocks)
        ends == UNION {OneLevel(lt, res, order, start) : order \in Orders(blocks)}
    IN  UNION {IF com = start THEN {blocks} ELSE LouvainFrom(w, res, Merge(com)) :
                  com \in ends}

\* the partitions of G's nodes louvain_communities can return
\* (it divides by graph.size(): a graph of total weight 0 makes it raise)
LouvainRaises(G) == DOMAIN G.edges # {} /\ TotalWeight(IntWeights(G)) = 0

louvain_communities(G, resolution) ==
    IF DOMAIN G.edges = {} THEN {{{u} : u \in G.nodes}}
    ELSE LouvainFrom(IntWeights(G), resolution, {{u} : u \in G.nodes})

(***************************************************************************)
(* coordination.py: _detect_clusters                                       *)
(***************************************************************************)
\* G.subgraph(community): the edges with both ends in the community
SubgraphEdges(G, community) == {k \in DOMAIN G.edges : k \subseteq community}

\* nx.density of the subgraph: 2m / (n (n - 1)), and 0 without edges or n <= 1
Density(G, community) ==
    LET n == Cardinality(community)
        m == Cardinality(SubgraphEdges(G, community))
    IN  IF m = 0 \/ n <= 1 THEN Zero ELSE Rat(2 * m, n * (n - 1))

\* nx.degree_centrality of the subgraph: degree / (n - 1), and 1 when n <= 1
DegreeCentrality(G, community) ==
    LET n == Cardinality(community)
        deg(u) == Cardinality({k \in SubgraphEdges(G, community) : u \in k})
                  + Cardinality({k \in SubgraphEdges(G, community) : k = {u}})
    IN  [u \in community |-> IF n <= 1 THEN Rat(1, 1) ELSE Rat(deg(u), n - 1)]

EdgeTypes == {"synchronized_posting", "url", "text", "hashtag", "reply_pattern"}

\* max(edge_types, key=edge_types.get): a most frequent type of the subgraph's
\* edges (one of them when several are as frequent), 'unknown' without any
PrimaryType(G, community) ==
    LET count(t) == Cardinality({k \in SubgraphEdges(G, community) : t \in G.edges[k].types})
        present == {t \in EdgeTypes : count(t) > 0}
    IN  IF present = {} THEN "unknown"
        ELSE CHOOSE t \in present : \A t2 \in present : count(t2) <= count(t)

\* the test "density < min_cluster_density: continue"
DensityUnfiltered(density, cfg) == TRUE
DensityPasses(density, cfg) == ~RLt(density, cfg.min_cluster_density)

\* the test "len(community) < min_cluster_size: continue"
SizePasses(community, cfg) == ~(Cardinality(community) < cfg.min_cluster_size)

MkCluster(G, community, i, now) ==
    [cluster_id |-> [minute |-> now, index |-> i],
     members |-> community,
     density |-> Density(G, community),
     size |-> Cardinality(community),
     edge_count |-> Cardinality(SubgraphEdges(G, community)),
     primary_type |-> PrimaryType(G, community),
     centrality_scores |-> DegreeCentrality(G, community)]

RECURSIVE ClustersFrom(_, _, _, _, _)
\* the loop over enumerate(communities), from the (i+1)-th community on
ClustersFrom(G, communities, i, cfg, now) ==
    IF i >= Len(communities) THEN <<>>
    ELSE LET community == communities[i + 1]
         IN  (IF SizePasses(community, cfg) /\ DensityPasses(Density(G, community), cfg)
                THEN <<MkCluster(G, community, i, now)>> ELSE <<>>)
             \o ClustersFrom(G, communities, i + 1, cfg, now)

\* "except Exception as e: ... return []"
OnClusteringErrorWhole(G, now) == <<MkCluster(G, G.nodes, 0, now)>>
OnClusteringError(G, now) == <<>>

\* communities: the list louvain_communities returned; raised: it raised instead
_detect_clusters(G, communities, raised, cfg, now) ==
    IF Cardinality(G.nodes) < cfg.min_cluster_size THEN <<>>
    ELSE IF raised THEN OnClusteringError(G, now)
    ELSE ClustersFrom(G, communities, 0, cfg, now)

(***************************************************************************)
(* coordination.py: _calculate_metrics, _empty_result                      *)
(***************************************************************************)
EdgesOfType(G, t) == Cardinality({k \in DOMAIN G.edges : t \in G.edges[k].types})

\* a rate that is capped at 1
SignalRateCapped(G, t, total_posts) ==
    IF total_posts > 0 THEN RMin(Rat(2 * EdgesOfType(G, t), total_posts), RInt(1)) ELSE Zero

\* 2 * (edges of the type) / total_posts, and 0 without posts
SignalRate(G, t, total_posts) ==
    IF total_posts > 0 THEN Rat(2 * EdgesOfType(G, t), total_posts) ELSE Zero

\* coordination_score = min(coordination_score, 100)
CapScore(score) == RMin(score, RInt(100))

ClusteredAccounts(clusters) == UNION {clusters[i].members : i \in 1..Len(clusters)}

\* organic_posts = total_posts - coordinated_posts
OrganicAll(total_posts, coordinated_posts) == total_posts
OrganicPosts(total_posts, coordinated_posts) == total_posts - coordinated_posts

_calculate_metrics(platform, start, end, ps, G, clusters, cfg) ==
    LET total_posts == Len(ps)
        clustered == ClusteredAccounts(clusters)
        coordinated_posts == Cardinality({i \in 1..Len(ps) : ps[i].account_id \in clustered})
        cluster_coverage == IF total_posts > 0 THEN Rat(coordinated_posts, total_posts) ELSE Zero
        avg_density ==
            IF Len(clusters) > 0
            THEN RDiv(RSumOver(1..Len(clusters), [i \in 1..Len(clusters) |-> clusters[i].density]),
                      RInt(Len(clusters)))
            ELSE Zero
        sync_rate == SignalRate(G, "synchronized_posting", total_posts)
        score == RMul(RAdd(RAdd(RMul(cluster_coverage, cfg.cluster_coverage_weight),
                                RMul(avg_density, cfg.density_weight)),
                           RMul(sync_rate, cfg.sync_rate_weight)),
                      RInt(100))
    IN  [platform |-> platform,
         time_window_start |-> start,
         time_window_end |-> end,
         coordination_score |-> CapScore(score),
         total_posts |-> total_posts,
         coordinated_posts |-> coordinated_posts,
         organic_posts |-> OrganicPosts(total_posts, coordinated_posts),
         clusters |-> clusters,
         edge_count |-> number_of_edges(G),
         sync_rate |-> sync_rate,
         url_sharing_rate |-> SignalRate(G, "url", total_posts),
         text_similarity_rate |-> SignalRate(G, "text", total_posts),
         is_spike |-> FALSE,
         spike_magnitude |-> Zero]

_empty_result(platform, start, end) ==
    [platform |-> platform,
     time_window_start |-> start,
     time_window_end |-> end,
     coordination_score |-> Zero,
     total_posts |-> 0,
     coordinated_posts |-> 0,
     organic_posts |-> 0,
     clusters |-> <<>>,
     edge_count |-> 0,
     sync_rate |-> Zero,
     url_sharing_rate |-> Zero,
     text_similarity_rate |-> Zero,
     is_spike |-> FALSE,
     spike_magnitude |-> Zero]

(***************************************************************************)
(* coordination.py: _store_results, on the tables of coordination_models.py *)
(***************************************************************************)
MetricRow(res) ==
    [platform |-> res.platform,
     time_bucket |-> res.time_window_start,
     bucket_type |-> "hourly",
     coordination_score |-> res.coordination_score,
     total_posts_analyzed |-> res.total_posts,
     coordinated_posts_count |-> res.coordinated_posts,
     organic_posts_count |-> res.organic_posts,
     active_cluster_count |-> Len(res.clusters),
     avg_cluster_size |->
        IF Len(res.clusters) > 0
        THEN Rat(SumOver(1..Len(res.clusters), [i \in 1..Len(res.clusters) |-> res.clusters[i].size]),
                 Len(res.clusters))
        ELSE Zero,
     synchronized_posting_rate |-> res.sync_rate,
     url_sharing_rate |-> res.url_sharing_rate,
     text_similarity_rate |-> res.text_similarity_rate]

\* the rows the query of _store_results (and the unique index) match
MetricsFor(rows, platform, time_bucket) ==
    {m \in rows : m.platform = platform /\ m.time_bucket = time_bucket
                  /\ m.bucket_type = "hourly"}

\* "if metric: update ... else: session.add(metric)"
UpsertMetric(rows, res) ==
    LET found == MetricsFor(rows, res.platform, res.time_window_start)
    IN  IF found # {}
        THEN LET metric == CHOOSE m \in found : TRUE
             IN  (rows \ {metric}) \cup {MetricRow(res)}
        ELSE rows \cup {MetricRow(res)}

ClusterRow(res, cluster) ==
    [cluster_id |-> cluster.cluster_id,
     platform |-> res.platform,
     time_window_start |-> res.time_window_start,
     time_window_end |-> res.time_window_end,
     member_count |-> cluster.size,
     density_score |-> cluster.density,
     cluster_type |-> cluster.primary_type,
     coordination_score |-> res.coordination_score]

MemberRowsOf(cluster) ==
    LET accounts == SortAccounts(DOMAIN cluster.centrality_scores)
    IN  [k \in 1..Len(accounts) |->
            [cluster_id |-> cluster.cluster_id,
             account_id |-> accounts[k],
             centrality_score |-> cluster.centrality_scores[accounts[k]],
             edge_count |-> cluster.edge_count]]

NewClusterRows(res) == [i \in 1..Len(res.clusters) |-> ClusterRow(res, res.clusters[i])]

NewMemberRows(res) == Concat([i \in 1..Len(res.clusters) |-> MemberRowsOf(res.clusters[i])])

\* cluster_id = Column(String, unique=True): the commit raises IntegrityError
\* when a new row repeats the cluster_id of a stored row or of another new row
ClusterIdClash(stored, new) ==
    \/ \E i \in 1..Len(new), j \in 1..Len(stored) : new[i].cluster_id = stored[j].cluster_id
    \/ \E i, j \in 1..Len(new) : i # j /\ new[i].cluster_id = new[j].cluster_id

\* The tables after _store_results: the writes of the run are committed
\* together, or (the commit raised: a clash, or the database failed) rolled
\* back together, and the exception is logged and dropped.
\* "except Exception as e: ... session.rollback()": the pending writes of
\* the run are dropped together
RolledBackButMetric(tables, res) ==
    [tables EXCEPT !.metrics = UpsertMetric(tables.metrics, res), !.committed = FALSE]
RolledBack(tables, res) == [tables EXCEPT !.committed = FALSE]

_store_results(tables, res, db_fails) ==
    IF db_fails \/ ClusterIdClash(tables.cluster_rows, NewClusterRows(res))
    THEN RolledBack(tables, res)
    ELSE [metrics |-> UpsertMetric(tables.metrics, res),
          cluster_rows |-> tables.cluster_rows \o NewClusterRows(res),
          member_rows |-> tables.member_rows \o NewMemberRows(res),
          committed |-> TRUE]

Tables == [metrics |-> metrics, cluster_rows |-> cluster_rows, member_rows |-> member_rows,
           committed |-> FALSE]

(***************************************************************************)
(* numpy arithmetic of get_spikes.  Scores are binary floating-point        *)
(* numbers: every operation returns the exact result rounded to the        *)
(* nearest number with Precision significant bits, ties to even (float64   *)
(* has 53; exponent range and subnormals play no part at the magnitudes of *)
(* scores).  A float is represented by the rational it denotes.            *)
(***************************************************************************)
Precision == 8

Pow2(k) == 2 ^ k

RECURSIVE ExponentUp(_, _, _)
\* the largest e >= from with d * 2^e <= a      (a >= d * 2^from)
ExponentUp(a, d, from) ==
    IF d * Pow2(from + 1) <= a THEN ExponentUp(a, d, from + 1) ELSE from

RECURSIVE ExponentDown(_, _, _)
\* the smallest k >= from with a * 2^k >= d     (a > 0)
ExponentDown(a, d, from) ==
    IF a * Pow2(from) >= d THEN from ELSE ExponentDown(a, d, from + 1)

\* floor(log2(a / d)) for a, d > 0
Exponent(a, d) == IF a >= d THEN ExponentUp(a, d, 0) ELSE 0 - ExponentDown(a, d, 1)

\* num / den rounded to the nearest integer, ties to the even one
RoundHalfEven(num, den) ==
    LET m == num \div den
        r == num - m * den
    IN  IF 2 * r > den THEN m + 1
        ELSE IF 2 * r < den THEN m
        ELSE m + (m % 2)

\* m * 2^shift as a rational
Scaled(m, shift) == IF shift >= 0 THEN Rat(m * Pow2(shift), 1) ELSE Rat(m, Pow2(0 - shift))

\* the float nearest to a / d, for a, d > 0 and shift = exponent - (Precision - 1)
RoundAt(a, d, shift) ==
    Scaled(IF shift >= 0 THEN RoundHalfEven(a, d * Pow2(shift))
           ELSE RoundHalfEven(a * Pow2(0 - shift), d), shift)

RoundPositive(a, d) == RoundAt(a, d, Exponent(a, d) - (Precision - 1))

RNeg(x) == Rat(0 - x[1], x[2])

\* the float nearest to the rational x
fl(x) ==
    IF x[1] = 0 THEN Zero
    ELSE IF x[1] > 0 THEN RoundPositive(x[1], x[2])
    ELSE RNeg(RoundPositive(0 - x[1], x[2]))

fadd(x, y) == fl(RAdd(x, y))
fsub(x, y) == fl(RSub(x, y))
fmul(x, y) == fl(RMul(x, y))
fdiv(x, y) == fl(RDiv(x, y))

\* m * 2^shift <= sqrt(a / d), compared on the squares
SqrtAtLeast(a, d, m, shift) ==
    IF shift >= 0 THEN m * m * Pow2(2 * shift) * d <= a
    ELSE m * m * d <= a * Pow2(0 - 2 * shift)

RECURSIVE SqrtFloor(_, _, _, _, _)
\* the largest m in lo .. hi - 1 with m * 2^shift <= sqrt(a / d), by bisection
SqrtFloor(a, d, shift, lo, hi) ==
    IF hi - lo <= 1 THEN lo
    ELSE IF SqrtAtLeast(a, d, (lo + hi) \div 2, shift)
         THEN SqrtFloor(a, d, shift, (lo + hi) \div 2, hi)
         ELSE SqrtFloor(a, d, shift, lo, (lo + hi) \div 2)

\* (2m + 1) * 2^(shift - 1), the midpoint above m * 2^shift, is below sqrt(a / d)
SqrtAboveMidpoint(a, d, m, shift) ==
    IF shift >= 1 THEN (2 * m + 1) * (2 * m + 1) * Pow2(2 * (shift - 1)) * d < a
    ELSE (2 * m + 1) * (2 * m + 1) * d < a * Pow2(2 * (1 - shift))

SqrtMantissa(a, d, shift) ==
    LET m == SqrtFloor(a, d, shift, Pow2(Precision - 1), Pow2(Precision))
    IN  IF SqrtAboveMidpoint(a, d, m, shift) THEN m + 1 ELSE m

\* floor(e / 2) for any integer e
HalfFloor(e) == IF e >= 0 THEN e \div 2 ELSE 0 - ((1 - e) \div 2)

SqrtPositive(a, d, shift) == Scaled(SqrtMantissa(a, d, shift), shift)

\* np.sqrt: the float nearest to the square root of the float x >= 0
fsqrt(x) ==
    IF x[1] = 0 THEN Zero
    ELSE SqrtPositive(x[1], x[2], HalfFloor(Exponent(x[1], x[2])) - (Precision - 1))

RECURSIVE AddInOrder(_, _, _)
\* res += a[i] for i = from .. Len(a)
AddInOrder(res, a, from) ==
    IF from > Len(a) THEN res ELSE AddInOrder(fadd(res, a[from]), a, from + 1)

\* np.add.reduce of a float64 array of 8 to 15 elements (pairwise summation:
\* eight accumulators combined as a tree, the remainder added in order)
np_sum(a) ==
    AddInOrder(fadd(fadd(fadd(a[1], a[2]), fadd(a[3], a[4])),
                    fadd(fadd(a[5], a[6]), fadd(a[7], a[8]))), a, 9)

np_mean(a) == fdiv(np_sum(a), RInt(Len(a)))

RECURSIVE Deviations(_, _)
\* a - mean, element by element
Deviations(a, mean) ==
    IF a = <<>> THEN <<>> ELSE <<fsub(Head(a), mean)>> \o Deviations(Tail(a), mean)

RECURSIVE Squares(_)
\* x * x, element by element
Squares(x) ==
    IF x = <<>> THEN <<>> ELSE <<fmul(Head(x), Head(x))>> \o Squares(Tail(x))

\* the divisor of the variance: np.std's default ddof = 0
VarianceCount(n) == RInt(n)

\* np.std(a): sqrt(mean(abs(a - a.mean()) ** 2))
np_std(a) ==
    LET mean == np_mean(a)
    IN  fsqrt(fdiv(np_sum(Squares(Deviations(a, mean))), VarianceCount(Len(a))))

(***************************************************************************)
(* coordination.py: get_spikes                                             *)
(***************************************************************************)
RECURSIVE InsertByBucket(_, _)
InsertByBucket(m, sorted) ==
    IF sorted = <<>> THEN <<m>>
    ELSE IF m.time_bucket < Head(sorted).time_bucket THEN <<m>> \o sorted
    ELSE <<Head(sorted)>> \o InsertByBucket(m, Tail(sorted))

RECURSIVE OrderByBucket(_)
OrderByBucket(S) ==
    IF S = {} THEN <<>>
    ELSE LET m == CHOOSE x \in S : TRUE IN InsertByBucket(m, OrderByBucket(S \ {m}))

\* the query: the platform's hourly metrics since the cutoff, oldest first
LoadedMetrics(rows, platform, cutoff) ==
    OrderByBucket({m \in rows : /\ m.platform = platform
                                /\ m.time_bucket >= cutoff
                                /\ m.bucket_type = "hourly"})

RECURSIVE InsertByZ(_, _)
\* sorted(..., key = z_score, reverse = True) is stable: a spike goes behind
\* the spikes of equal z that came before it
InsertByZ(spike, sorted) ==
    IF sorted = <<>> THEN <<spike>>
    ELSE IF RLt(Head(sorted).z_score, spike.z_score) THEN <<spike>> \o sorted
    ELSE <<Head(sorted)>> \o InsertByZ(spike, Tail(sorted))

RECURSIVE SortByZ(_)
SortByZ(spikes) ==
    IF spikes = <<>> THEN <<>>
    ELSE InsertByZ(spikes[Len(spikes)], SortByZ(SubSeq(spikes, 1, Len(spikes) - 1)))

MinSamples == 10

\* "if z_score >= threshold_std"
ZPassesStrictly(z_score, threshold_std) == RLt(threshold_std, z_score)
ZPasses(z_score, threshold_std) == RLeq(threshold_std, z_score)

SpikeOf(m, mean_score, std_score) ==
    [time_bucket |-> m.time_bucket,
     coordination_score |-> m.coordination_score,
     z_score |-> fdiv(fsub(m.coordination_score, mean_score), std_score),
     total_posts |-> m.total_posts_analyzed,
     cluster_count |-> m.active_cluster_count,
     baseline_mean |-> mean_score,
     baseline_std |-> std_score]

SpikesAmong(loaded, mean_score, std_score, threshold_std) ==
    SortByZ(SelectSeq([i \in 1..Len(loaded) |-> SpikeOf(loaded[i], mean_score, std_score)],
                      LAMBDA spike : ZPasses(spike.z_score, threshold_std)))

ScoresOf(loaded) == [i \in 1..Len(loaded) |-> loaded[i].coordination_score]

\* "if len(metrics) < 10: return []"
TooFewSamplesLax(n) == n < MinSamples - 1
TooFewSamples(n) == n < MinSamples

\* "if std_score == 0: return []"
FlatBaseline(std_score) == std_score = Zero

SpikesAbove(loaded, mean_score, std_score, threshold_std) ==
    IF FlatBaseline(std_score) THEN <<>>
    ELSE SpikesAmong(loaded, mean_score, std_score, threshold_std)

SpikesFrom(loaded, scores, threshold_std) ==
    IF TooFewSamples(Len(loaded)) THEN <<>>
    ELSE SpikesAbove(loaded, np_mean(scores), np_std(scores), threshold_std)

LoadedSpikes(loaded, threshold_std) == SpikesFrom(loaded, ScoresOf(loaded), threshold_std)

\* get_spikes(platform, hours, threshold_std) called at the time now (seconds)
get_spikes(rows, platform, now, hours, threshold_std) ==
    LoadedSpikes(LoadedMetrics(rows, platform, now - 3600 * hours), threshold_std)

(***************************************************************************)
(* State and operations                                                    *)
(***************************************************************************)
NoQuery == [hours |-> 0, threshold_std |-> Zero]

\* What the last call left.  outcome: what became of analyze_hour's writes
\* ("empty": it returned _empty_result and wrote nothing; "aborted": it
\* raised before it got to write).  raised: the call ended with an exception
\* instead of a return value.  clustered: _detect_clusters was called.
\* failed: the signal extractors that raised during the call.
NoResult == [op |-> "none", hour |-> 0, outcome |-> "none",
             value |-> _empty_result(Platform, 0, 0), query |-> NoQuery, spikes |-> <<>>,
             raised |-> FALSE, clustered |-> FALSE, failed |-> {}]

\* no analyze_range call has been made
NoCall == [state |-> "none", args |-> <<0, 0>>, current |-> 0, end |-> 0, results |-> <<>>]

\* the two database sessions of analyze_hour calls that run side by side
Sessions == {"s1", "s2"}

\* no analyze_hour call is under way in the session
NoSession == [state |-> "idle", hour |-> 0, value |-> NoResult.value, found |-> FALSE]

NoSessions == [s \in Sessions |-> NoSession]

\* what one analyze_hour call leaves: its return value, what became of its
\* writes, and the window's metric rows and cluster rows afterwards
Entry(h, outcome, value, tables) ==
    [hour |-> h, outcome |-> outcome, value |-> value, minute |-> clock,
     metric_rows |-> MetricsFor(tables.metrics, Platform, HourStart(h)),
     window_clusters |-> SelectSeq(tables.cluster_rows,
                                   LAMBDA r : r.platform = Platform
                                              /\ r.time_window_start = HourStart(h))]

Init ==
    /\ posts \in PostSets
    /\ config \in Configs
    /\ clock = 0
    /\ metrics = {}
    /\ cluster_rows = <<>>
    /\ member_rows = <<>>
    /\ edge_rows = <<>>
    /\ result = NoResult
    /\ graph = NoGraph
    /\ runs = 0
    /\ history = <<>>
    /\ call = NoCall
    /\ sessions = NoSessions

\* a short circuit that stores the zero-valued result as the window's metric
ShortCircuitStored(h, failed) ==
    /\ result' = [op |-> "analyze_hour", hour |-> h, outcome |-> "empty",
                  value |-> _empty_result(Platform, HourStart(h), HourStart(h + 1)),
                  query |-> NoQuery, spikes |-> <<>>,
                  raised |-> FALSE, clustered |-> FALSE, failed |-> failed]
    /\ metrics' = UpsertMetric(metrics, result'.value)
    /\ history' = Append(history, Entry(h, "empty", result'.value,
                                        [Tables EXCEPT !.metrics = metrics']))
    /\ UNCHANGED <<cluster_rows, member_rows>>

\* analyze_hour returned _empty_result: nothing is stored
ShortCircuit(h, failed) ==
    /\ result' = [op |-> "analyze_hour", hour |-> h, outcome |-> "empty",
                  value |-> _empty_result(Platform, HourStart(h), HourStart(h + 1)),
                  query |-> NoQuery, spikes |-> <<>>,
                  raised |-> FALSE, clustered |-> FALSE, failed |-> failed]
    /\ history' = Append(history, Entry(h, "empty", result'.value, Tables))
    /\ UNCHANGED <<metrics, cluster_rows, member_rows>>

\* analyze_hour went on to score the clusters found and to store the result;
\* _store_results catches what the store raises, so the result is returned
\* whether or not it was stored
Scored(h, ps, G, clusters, db_fails, failed) ==
    LET value == _calculate_metrics(Platform, HourStart(h), HourStart(h + 1), ps, G,
                                    clusters, config)
        after == _store_results(Tables, value, db_fails)
        outcome == IF after.committed THEN "committed" ELSE "rolled_back"
    IN  /\ metrics' = after.metrics
        /\ cluster_rows' = after.cluster_rows
        /\ member_rows' = after.member_rows
        /\ result' = [op |-> "analyze_hour", hour |-> h, outcome |-> outcome,
                      value |-> value, query |-> NoQuery, spikes |-> <<>>,
                      raised |-> FALSE, clustered |-> TRUE, failed |-> failed]
        /\ history' = Append(history, Entry(h, outcome, value, after))

\* The lists of communities louvain_communities can return for the graph:
\* any partition it can reach, in any order; one empty list where the code
\* does not get to call it or the call raises.
CommunityLists(G, cfg) ==
    IF number_of_edges(G) > 0 /\ Cardinality(G.nodes) >= cfg.min_cluster_size
          /\ ~LouvainRaises(G)
    THEN UNION {Orders(part) : part \in louvain_communities(G, cfg.louvain_resolution)}
    ELSE {<<>>}

\* fit_transform raises in find_similar_pairs (no term is left), which
\* catches the exception and returns []
TextRaises(pd) ==
    LET valid == SelectSeq(pd, LAMBDA p : ProcessedLen(preprocess_text(p.content)) >= MinTextLength)
    IN  /\ Len(pd) >= 2
        /\ Len(valid) >= 2
        /\ Vocabulary([i \in 1..Len(valid) |-> preprocess_text(valid[i].content)]) = {}

GraphAnalysis(ps, G, cfg) ==
    [ps |-> ps, short |-> FALSE, G |-> G,
     raises |-> number_of_edges(G) > 0 /\ LouvainRaises(G),
     communities |-> CommunityLists(G, cfg),
     failed |-> IF TextRaises(PostData(ps)) THEN {"text"} ELSE {}]

\* "if len(posts) < self.config.min_cluster_size"
TooFewPostsLax(ps, cfg) == Len(ps) < cfg.min_cluster_size - 1
TooFewPosts(ps, cfg) == Len(ps) < cfg.min_cluster_size

WindowAnalysis(ps, cfg) ==
    IF TooFewPosts(ps, cfg)
    THEN [ps |-> ps, short |-> TRUE, G |-> NoGraph, raises |-> FALSE,
          communities |-> {<<>>}, failed |-> {}]
    ELSE GraphAnalysis(ps, _build_network(ps, cfg), cfg)

\* The part of analyze_hour that depends on the posts table and the config
\* only: the posts of the window, their graph, and what the clustering of
\* that graph can return.
Analysis(rows, cfg, h) ==
    WindowAnalysis(_get_posts_in_window(rows, Platform, HourStart(h), HourStart(h + 1)), cfg)

\* Analysis, computed once for every posts table and config of the model
AnalysisTable ==
    Tabulate((PostSets \cup RangePostSets) \X Configs \X Hours,
             [x \in (PostSets \cup RangePostSets) \X Configs \X Hours |->
                Analysis(x[1], x[2], x[3])])

\* analyze_hour once the graph of the window is built
AnalyzeGraph(h, an) ==
    /\ graph' = an.G
    /\ IF number_of_edges(an.G) = 0
       THEN ShortCircuit(h, an.failed)
       ELSE \E clusters \in {_detect_clusters(an.G, cs, an.raises, config, clock) :
                                cs \in an.communities} :
            \E db_fails \in BOOLEAN :
                Scored(h, an.ps, an.G, clusters, db_fails, an.failed)

\* analyze_hour from the point where the window's posts are loaded
AnalyzeWindow(h, an) ==
    IF an.short
    THEN graph' = NoGraph /\ ShortCircuit(h, {})
    ELSE AnalyzeGraph(h, an)

\* analyze_hour(platform, hour_start)
AnalyzeHour(h) ==
    /\ runs < MaxRuns
    /\ runs' = runs + 1
    /\ AnalyzeWindow(h, AnalysisTable[<<posts, config, h>>])
    /\ UNCHANGED <<posts, config, clock, edge_rows, call, sessions>>

\* a minute passes on the wall clock
Tick ==
    /\ clock < MaxClock
    /\ clock' = clock + 1
    /\ UNCHANGED <<posts, config, metrics, cluster_rows, member_rows, edge_rows, result, graph,
                   runs, history, call, sessions>>

Next ==
    \/ \E h \in Hours : AnalyzeHour(h)
    \/ Tick

Spec == Init /\ [][Next]_vars

(***************************************************************************)
(* analyze_hour when a signal extractor raises.                            *)
(***************************************************************************)
\* The extractors _build_network calls with no handler around them, in the
\* order of the calls; find_similar_pairs, called third, has its own.  Any
\* of them may raise (the model does not say why: an exception of Python
\* code such as MemoryError), and then the extractors called before it have
\* run.
UncaughtExtractors == {"synchronized_posting", "url", "hashtag", "reply_pattern"}

\* the extractors that have raised when this one does: the text extractor
\* runs after the first two
FailedUpTo(extractor, text_failed) ==
    IF extractor \in {"synchronized_posting", "url"} THEN {extractor}
    ELSE text_failed \cup {extractor}

\* an exception left _build_network: nothing in analyze_hour catches it, the
\* finally clause closes the session, and the caller gets the exception
Aborted(h, failed) ==
    /\ result' = [op |-> "analyze_hour", hour |-> h, outcome |-> "aborted",
                  value |-> NoResult.value, query |-> NoQuery, spikes |-> <<>>,
                  raised |-> TRUE, clustered |-> FALSE, failed |-> failed]
    /\ history' = Append(history, Entry(h, "aborted", NoResult.value, Tables))
    /\ UNCHANGED <<metrics, cluster_rows, member_rows>>

\* the windows that get as far as _build_network
RaisingPostSets == {S \in SUBSET PostUniverse : Cardinality(S) >= 5}

InitRaising ==
    /\ posts \in RaisingPostSets
    /\ config \in {DefaultConfig, PairConfig}
    /\ clock = 0
    /\ metrics = {}
    /\ cluster_rows = <<>>
    /\ member_rows = <<>>
    /\ edge_rows = <<>>
    /\ result = NoResult
    /\ graph = NoGraph
    /\ runs = 0
    /\ history = <<>>
    /\ call = NoCall
    /\ sessions = NoSessions

\* analyze_hour(platform, hour_start) in which an extractor raises
ExtractorRaises(h, an) ==
    /\ runs < MaxRuns
    /\ runs' = runs + 1
    /\ ~an.short
    /\ \E extractor \in UncaughtExtractors :
            Aborted(h, FailedUpTo(extractor, an.failed))
    /\ graph' = NoGraph
    /\ UNCHANGED <<posts, config, clock, edge_rows, call, sessions>>

AnalyzeHourRaising(h) == ExtractorRaises(h, AnalysisTable[<<posts, config, h>>])

NextRaising ==
    \/ \E h \in Hours : AnalyzeHour(h)
    \/ \E h \in Hours : AnalyzeHourRaising(h)
    \/ Tick

SpecRaising == InitRaising /\ [][NextRaising]_vars

(***************************************************************************)
(* get_spikes over a store of hourly metrics.  The store holds one metric  *)
(* per hour for the hours 0 .. n-1, n <= MaxMetrics, with scores drawn     *)
(* from ScoreValues in rising or falling order, and a metric of another    *)
(* platform.  get_spikes is called in the hour MaxMetrics + 1 with the     *)
(* arguments drawn in result.query.                                        *)
(***************************************************************************)
ScoreValues == <<RInt(10), fl(Rat(100, 3)), RInt(50)>>

\* n scores: ScoreValues[1] up to position i, [2] up to position j, then [3]
ScoreBlocks(n, i, j) ==
    [t \in 1..n |-> ScoreValues[IF t <= i THEN 1 ELSE IF t <= j THEN 2 ELSE 3]]

Reversed(seq) == [t \in 1..Len(seq) |-> seq[Len(seq) + 1 - t]]

ScoreLists ==
    UNION {{ScoreBlocks(q[1], q[2], q[3]), Reversed(ScoreBlocks(q[1], q[2], q[3]))} :
              q \in {q \in (0..MaxMetrics) \X (0..MaxMetrics) \X (0..MaxMetrics) :
                        q[2] <= q[3] /\ q[3] <= q[1]}}

StoredMetric(platform, h, score) ==
    [platform |-> platform,
     time_bucket |-> HourStart(h),
     bucket_type |-> "hourly",
     coordination_score |-> score,
     total_posts_analyzed |-> 5,
     coordinated_posts_count |-> 0,
     organic_posts_count |-> 5,
     active_cluster_count |-> 0,
     avg_cluster_size |-> Zero,
     synchronized_posting_rate |-> Zero,
     url_sharing_rate |-> Zero,
     text_similarity_rate |-> Zero]

StoredMetrics(scores) == {StoredMetric(Platform, t - 1, scores[t]) : t \in 1..Len(scores)}

OtherPlatformMetric == StoredMetric("hackernews", MaxMetrics, RInt(50))

SpikeClock == 60 * (MaxMetrics + 1)

Lookbacks == {168, MaxMetrics}

Thresholds == {RInt(0 - 1), Zero, RInt(2), RInt(3)}

SpikesInit ==
    /\ posts = {}
    /\ config = DefaultConfig
    /\ clock = SpikeClock
    /\ \E scores \in ScoreLists : metrics = StoredMetrics(scores) \cup {OtherPlatformMetric}
    /\ cluster_rows = <<>>
    /\ member_rows = <<>>
    /\ edge_rows = <<>>
    /\ \E hours \in Lookbacks, threshold_std \in Thresholds :
            result = [NoResult EXCEPT !.query = [hours |-> hours,
                                                 threshold_std |-> threshold_std]]
    /\ graph = NoGraph
    /\ runs = 0
    /\ history = <<>>
    /\ call = NoCall
    /\ sessions = NoSessions

\* get_spikes(platform, hours, threshold_std)
GetSpikes ==
    /\ result' = [op |-> "get_spikes", hour |-> 0, outcome |-> "returned",
                  value |-> NoResult.value,
                  query |-> result.query,
                  spikes |-> get_spikes(metrics, Platform, 60 * clock, result.query.hours,
                                        result.query.threshold_std),
                  raised |-> FALSE, clustered |-> FALSE, failed |-> {}]
    /\ UNCHANGED <<posts, config, clock, metrics, cluster_rows, member_rows, edge_rows, graph,
                   runs, history, call, sessions>>

SpikesNext == GetSpikes

SpecSpikes == SpikesInit /\ [][SpikesNext]_vars

(***************************************************************************)
(* analyze_range: the hourly windows of a range, analysed one after the    *)
(* other in one session of get_session.  The store may hold a metric row   *)
(* for hour 0 that an earlier run left.                                    *)
(***************************************************************************)
\* t.replace(minute=0, second=0, microsecond=0), in seconds
HourFloor(t) == t - (t % 3600)

RangeStarts == {0, 1800, 3600}

RangeEnds == {0, 3599, 3600, 5400, 7200, 7300}

\* the metric row an earlier run of hour 0 stored
OldMetric == StoredMetric(Platform, 0, RInt(50))

InitRange ==
    /\ posts \in RangePostSets
    /\ config \in {DefaultConfig, PairConfig}
    /\ clock = 0
    /\ metrics \in {{}, {OldMetric}}
    /\ cluster_rows = <<>>
    /\ member_rows = <<>>
    /\ edge_rows = <<>>
    /\ result = NoResult
    /\ graph = NoGraph
    /\ runs = 0
    /\ history = <<>>
    /\ call = NoCall
    /\ sessions = NoSessions

\* analyze_range(platform, start, end) up to its loop: both ends are rounded
\* down to the hour
AnalyzeRange(start, end) ==
    /\ call.state = "none"
    /\ call' = [state |-> "running", args |-> <<start, end>>,
                current |-> HourFloor(start), end |-> HourFloor(end), results |-> <<>>]
    /\ UNCHANGED <<posts, config, clock, metrics, cluster_rows, member_rows, edge_rows,
                   result, graph, runs, history, sessions>>

\* "while current < end"
MoreWindowsButLast(current, end) == current + 3600 < end
MoreWindows(current, end) == current < end

\* one pass of the loop: analyze_hour(platform, current, session), append
\* the result, step to the next hour
RangeWindow(h, an) ==
    /\ runs' = runs + 1
    /\ AnalyzeWindow(h, an)
    /\ call' = [call EXCEPT !.results = Append(@, result'.value), !.current = @ + 3600]
    /\ UNCHANGED <<posts, config, clock, edge_rows, sessions>>

AnalyzeRangeWindow ==
    /\ call.state = "running"
    /\ MoreWindows(call.current, call.end)
    /\ \E h \in Hours :
          /\ HourStart(h) = call.current
          /\ RangeWindow(h, AnalysisTable[<<posts, config, h>>])

\* an exception that leaves the loop is not caught in analyze_range:
\* get_session rolls back (nothing is pending), closes the session and
\* re-raises
OnWindowErrorNext(c) == [c EXCEPT !.current = @ + 3600]
OnWindowError(c) == [c EXCEPT !.state = "raised"]

\* one pass of the loop in which an extractor raises
RangeWindowRaises(h, an) ==
    /\ ~an.short
    /\ runs' = runs + 1
    /\ \E extractor \in UncaughtExtractors :
            Aborted(h, FailedUpTo(extractor, an.failed))
    /\ graph' = NoGraph
    /\ call' = OnWindowError(call)
    /\ UNCHANGED <<posts, config, clock, edge_rows, sessions>>

AnalyzeRangeWindowRaises ==
    /\ call.state = "running"
    /\ MoreWindows(call.current, call.end)
    /\ \E h \in Hours :
          /\ HourStart(h) = call.current
          /\ RangeWindowRaises(h, AnalysisTable[<<posts, config, h>>])

\* the loop is over: get_session commits and closes, "return results"
RangeReturn ==
    /\ call.state = "running"
    /\ ~MoreWindows(call.current, call.end)
    /\ call' = [call EXCEPT !.state = "returned"]
    /\ UNCHANGED <<posts, config, clock, metrics, cluster_rows, member_rows, edge_rows,
                   result, graph, runs, history, sessions>>

\* a step of the call: it leaves the loop, or makes one more pass
RangeProgress == RangeReturn \/ AnalyzeRangeWindowRaises \/ AnalyzeRangeWindow

NextRange ==
    \/ \E start \in RangeStarts, end \in RangeEnds : AnalyzeRange(start, end)
    \/ AnalyzeRangeWindow
    \/ AnalyzeRangeWindowRaises
    \/ RangeReturn
    \/ Tick

SpecRange == InitRange /\ [][NextRange]_vars

(***************************************************************************)
(* Two analyze_hour calls side by side, each in a database session of its  *)
(* own.  A call loads the posts, builds its result and looks for the       *)
(* window's metric row (Begin); its writes reach the tables when the       *)
(* session commits (Commit).  The commit of the other call can fall        *)
(* between the two.                                                        *)
(***************************************************************************)
\* posts of hour 0 that give a graph with edges
ConcurrentPostSets == {S \in SUBSET PostUniverse : EarlyPosts \subseteq S}

InitConcurrent ==
    /\ posts \in ConcurrentPostSets
    /\ config \in {DefaultConfig, DenseConfig}
    /\ clock = 0
    /\ metrics = {}
    /\ cluster_rows = <<>>
    /\ member_rows = <<>>
    /\ edge_rows = <<>>
    /\ result = NoResult
    /\ graph = NoGraph
    /\ runs = 0
    /\ history = <<>>
    /\ call = NoCall
    /\ sessions = NoSessions

\* the session has its result and the answer of the query for the window's
\* metric row ("metric = session.query(...).first()")
Pending(s, h, value) ==
    sessions' = [sessions EXCEPT ![s] =
                    [state |-> "pending", hour |-> h, value |-> value,
                     found |-> MetricsFor(metrics, Platform, HourStart(h)) # {}]]

\* analyze_hour in session s up to the writes of _store_results
BeginWindow(s, h, an) ==
    IF an.short \/ number_of_edges(an.G) = 0
    THEN /\ AnalyzeWindow(h, an)
         /\ sessions' = [sessions EXCEPT ![s] = [NoSession EXCEPT !.state = "done", !.hour = h]]
    ELSE /\ graph' = an.G
         /\ \E clusters \in {_detect_clusters(an.G, cs, an.raises, config, clock) :
                                cs \in an.communities} :
                Pending(s, h, _calculate_metrics(Platform, HourStart(h), HourStart(h + 1),
                                                 an.ps, an.G, clusters, config))
         /\ UNCHANGED <<metrics, cluster_rows, member_rows, result, history>>

Begin(s, h) ==
    /\ sessions[s].state = "idle"
    /\ runs' = runs + 1
    /\ BeginWindow(s, h, AnalysisTable[<<posts, config, h>>])
    /\ UNCHANGED <<posts, config, clock, edge_rows, call>>

\* Index('idx_metrics_unique', 'platform', 'time_bucket', 'bucket_type',
\* unique=True): the INSERT of a session that found no row fails when the
\* table holds a row of the window by now
MetricKeyUnchecked(rows, res, found) == FALSE
MetricKeyClash(rows, res, found) ==
    ~found /\ MetricsFor(rows, res.platform, res.time_window_start) # {}

\* the metric write of the session: an UPDATE of the row it found, or the
\* INSERT of a new row
WriteMetric(rows, res, found) ==
    IF found THEN UpsertMetric(rows, res) ELSE rows \cup {MetricRow(res)}

\* session.commit() of _store_results, and session.rollback() when it raises
CommitSession(tables, res, found, db_fails) ==
    IF \/ db_fails
       \/ MetricKeyClash(tables.metrics, res, found)
       \/ ClusterIdClash(tables.cluster_rows, NewClusterRows(res))
    THEN RolledBack(tables, res)
    ELSE [metrics |-> WriteMetric(tables.metrics, res, found),
          cluster_rows |-> tables.cluster_rows \o NewClusterRows(res),
          member_rows |-> tables.member_rows \o NewMemberRows(res),
          committed |-> TRUE]

\* the rest of analyze_hour in session s: the writes, the commit, the return
CommitWindow(s, after) ==
    /\ metrics' = after.metrics
    /\ cluster_rows' = after.cluster_rows
    /\ member_rows' = after.member_rows
    /\ result' = [op |-> "analyze_hour", hour |-> sessions[s].hour,
                  outcome |-> IF after.committed THEN "committed" ELSE "rolled_back",
                  value |-> sessions[s].value, query |-> NoQuery, spikes |-> <<>>,
                  raised |-> FALSE, clustered |-> TRUE, failed |-> {}]
    /\ history' = Append(history, Entry(sessions[s].hour, result'.outcome,
                                        sessions[s].value, after))
    /\ sessions' = [sessions EXCEPT ![s].state = "done"]

Commit(s) ==
    /\ sessions[s].state = "pending"
    /\ \E db_fails \in BOOLEAN :
          CommitWindow(s, CommitSession(Tables, sessions[s].value, sessions[s].found, db_fails))
    /\ UNCHANGED <<posts, config, clock, edge_rows, graph, runs, call>>

NextConcurrent ==
    \/ \E s \in Sessions, h \in Hours : Begin(s, h)
    \/ \E s \in Sessions : Commit(s)
    \/ Tick

SpecConcurrent == InitConcurrent /\ [][NextConcurrent]_vars

(***************************************************************************)
(* Properties of analyze_hour, checked under Spec                          *)
(***************************************************************************)
Analyzed == result.op = "analyze_hour"

Stored == Analyzed /\ result.outcome = "committed"

WithinRange(score) == RLeq(Zero, score) /\ RLeq(score, RInt(100))

\* C1: the coordination_score of every result analyze_hour returns, and of
\* every metric row it persists, lies between 0 and 100, whatever config the
\* analyzer was constructed with.
C1_ScoreWithinRange ==
    /\ Analyzed => WithinRange(result.value.coordination_score)
    /\ \A m \in metrics : WithinRange(m.coordination_score)

\* C2: no edge of the graph built by _build_network joins an account to
\* itself: every edge has two distinct end points.
C2_NoSelfEdge == \A e \in DOMAIN graph.edges : Cardinality(e) = 2

\* two posts of one account in the analysed window, within the sync window
SameAccountPair(p, q) ==
    /\ p.id # q.id
    /\ p.account_id = q.account_id
    /\ p.post_type = "post" /\ q.post_type = "post"
    /\ Abs(p.created_at - q.created_at) <= config.sync_window_seconds

\* a graph with edges was built from posts that include two posts of one
\* account close enough in time to be paired
C2_Witness ==
    /\ Analyzed
    /\ number_of_edges(graph) > 0
    /\ \E p, q \in posts : SameAccountPair(p, q)

PassesFilters(size, density) ==
    /\ size >= config.min_cluster_size
    /\ RLeq(config.min_cluster_density, density)

\* C3: every persisted cluster row, and every cluster of a returned result,
\* has at least min_cluster_size members and a density of at least
\* min_cluster_density.
C3_ClustersPassFilters ==
    /\ \A i \in 1..Len(cluster_rows) :
          PassesFilters(cluster_rows[i].member_count, cluster_rows[i].density_score)
    /\ \A i \in 1..Len(result.value.clusters) :
          PassesFilters(result.value.clusters[i].size, result.value.clusters[i].density)

\* a cluster was persisted by an analyzer whose density threshold is above
\* the density of a path of four accounts
C3_Witness ==
    /\ Stored
    /\ config = DenseConfig
    /\ Len(cluster_rows) > 0

\* C4: in every result of analyze_hour, computed or empty,
\* coordinated_posts + organic_posts = total_posts and neither count is
\* negative.
C4_PostsPartitioned ==
    Analyzed =>
        /\ result.value.coordinated_posts + result.value.organic_posts
              = result.value.total_posts
        /\ result.value.coordinated_posts >= 0
        /\ result.value.organic_posts >= 0

\* a computed result with posts of both kinds
C4_Witness ==
    /\ Analyzed
    /\ result.value.coordinated_posts > 0
    /\ result.value.organic_posts > 0

\* two runs of one window by an analyzer with the default config, both of
\* which stored their result
StoredRuns(i, j) ==
    /\ config = DefaultConfig
    /\ i < j
    /\ history[i].hour = history[j].hour
    /\ history[i].outcome = "committed"
    /\ history[j].outcome = "committed"

\* C5: two runs of analyze_hour for one window over unchanged posts leave
\* exactly one metric row for the window, with the values the first run
\* stored (stated for the default config and runs that stored their result).
C5_RerunKeepsMetric ==
    \A i, j \in 1..Len(history) :
        StoredRuns(i, j) =>
            /\ Cardinality(history[j].metric_rows) = 1
            /\ history[j].metric_rows = history[i].metric_rows

InWindow(row, h) == row.platform = Platform /\ row.time_window_start = HourStart(h)

WindowClusterRows(h) == SelectSeq(cluster_rows, LAMBDA r : InWindow(r, h))

WindowClusterIds(h) == {cluster_rows[i].cluster_id :
                           i \in {k \in 1..Len(cluster_rows) : InWindow(cluster_rows[k], h)}}

WindowMemberRows(h) == SelectSeq(member_rows, LAMBDA r : r.cluster_id \in WindowClusterIds(h))

\* C6: after a run of analyze_hour that stored its result, the cluster rows
\* and cluster-member rows of the window are exactly the rows of that run
\* (stated for the default config).
C6_RowsReplaced ==
    Stored /\ config = DefaultConfig =>
        /\ WindowClusterRows(result.hour) = NewClusterRows(result.value)
        /\ WindowMemberRows(result.hour) = NewMemberRows(result.value)

\* the posts of the hour-0 window
WindowPosts == {p \in posts : /\ p.post_type = "post"
                              /\ p.platform = Platform
                              /\ p.created_at >= HourStart(0)
                              /\ p.created_at < HourStart(1)}

\* Scenario A: exactly two posts, of two accounts, each "check this out
\* #promo", 10 seconds apart, and the window has been analysed
ScenarioA ==
    /\ Analyzed /\ result.hour = 0
    /\ Cardinality(WindowPosts) = 2
    /\ \E p, q \in WindowPosts :
          /\ p.account_id # q.account_id
          /\ p.content = PROMO /\ q.content = PROMO
          /\ q.created_at - p.created_at = 10

ScenarioAccounts == {p.account_id : p \in WindowPosts}

OneEdgeOfTypes(types) ==
    /\ DOMAIN graph.edges = {ScenarioAccounts}
    /\ graph.edges[ScenarioAccounts].types = types

\* C10: Scenario A yields one edge carrying synchronized_posting,
\* text and hashtag, and a result with coordinated_posts = 2 and
\* organic_posts = 0.
C10_ScenarioA ==
    ScenarioA =>
        /\ OneEdgeOfTypes({"synchronized_posting", "text", "hashtag"})
        /\ result.value.coordinated_posts = 2
        /\ result.value.organic_posts = 0

\* Scenario B: the analysed window holds five posts of five accounts that
\* no signal links
ScenarioB ==
    /\ Analyzed /\ result.hour = 0
    /\ posts = UnrelatedPosts
    /\ Cardinality(WindowPosts) = 5
    /\ Cardinality(ScenarioAccounts) = 5

\* C11: Scenario B yields zero edges, zero clusters, coordination_score = 0
\* and organic_posts = 5.
C11_ScenarioB ==
    ScenarioB =>
        /\ number_of_edges(graph) = 0
        /\ result.value.clusters = <<>>
        /\ result.value.coordination_score = Zero
        /\ result.value.organic_posts = 5

\* the posts analyze_hour loads for the hour h
HourPosts(h) == {p \in posts : /\ p.post_type = "post"
                               /\ p.platform = Platform
                               /\ p.created_at >= HourStart(h)
                               /\ p.created_at < HourStart(h + 1)}

\* the last analyze_hour got to build its graph
Built == Analyzed /\ graph # NoGraph

Links(p) == {p.content[i] : i \in {k \in 1..Len(p.content) : p.content[k].kind = "url"}}

\* two URLs that differ at most in the case of scheme and host
SameLink(u, v) ==
    /\ Lower(u.scheme) = Lower(v.scheme)
    /\ Lower(u.host) = Lower(v.host)
    /\ u.path = v.path
    /\ u.query = v.query

\* posts of the accounts x and y in the analysed window link to the same page
UrlMatch(x, y) ==
    \E p, q \in HourPosts(result.hour) :
        /\ p.account_id = x /\ q.account_id = y
        /\ \E u \in Links(p), v \in Links(q) : SameLink(u, v)

UrlEdge(x, y) == HasEdge(graph, x, y) /\ "url" \in graph.edges[{x, y}].types

\* C12: two accounts get a url edge exactly when posts of theirs link to
\* URLs that are equal up to the case of scheme and host; path and query
\* are compared verbatim, so https://Example.com/Path?x=1 and
\* https://example.com/path?x=1 are no match.
C12_UrlMatchFoldsSchemeAndHostOnly ==
    Built =>
        /\ \A x, y \in Accounts : x # y => (UrlEdge(x, y) <=> UrlMatch(x, y))
        /\ (\E p, q \in HourPosts(result.hour) :
                p.content = URL_MIXED /\ q.content = URL_LOWER)
              => ~UrlEdge("a", "b")

\* the three link posts were analysed: the URLs that differ in the case of
\* scheme and host joined their accounts, the URL with the other path did not
C12_Witness ==
    /\ Built
    /\ posts = LinkPosts
    /\ UrlEdge("a", "c")
    /\ ~UrlEdge("a", "b")
    /\ ~UrlEdge("b", "c")

\* C13: when a single signal extractor raises while a window is analysed,
\* analyze_hour does not end with the exception: the graph is built from the
\* edges of the other extractors and the call returns a result (checked
\* under SpecRaising).
C13_ExtractorFailureContained ==
    (Analyzed /\ Cardinality(result.failed) = 1) =>
        /\ ~result.raised
        /\ Built
        /\ result.outcome \in {"empty", "committed", "rolled_back"}

\* the community detection of the last analyze_hour raised: the graph has
\* edges, enough nodes for _detect_clusters to call it, and no weight
ClusteringRaised ==
    /\ Built
    /\ number_of_edges(graph) > 0
    /\ Cardinality(graph.nodes) >= config.min_cluster_size
    /\ \A k \in DOMAIN graph.edges : graph.edges[k].weight = Zero

\* the score that is left when no cluster is found: the sync-rate term
SyncRateScore ==
    RMin(RMul(RMul(result.value.sync_rate, config.sync_rate_weight), RInt(100)), RInt(100))

\* C14: when the community detection raises, analyze_hour still returns a
\* scored result and goes on to store it: no clusters, coordinated_posts = 0,
\* and a coordination_score that is the sync-rate term; a committed store
\* holds the window's metric with that score and no cluster.
C14_ClusteringFailureScored ==
    ClusteringRaised =>
        /\ ~result.raised
        /\ result.outcome \in {"committed", "rolled_back"}
        /\ result.value.clusters = <<>>
        /\ result.value.coordinated_posts = 0
        /\ result.value.total_posts = Cardinality(HourPosts(result.hour))
        /\ result.value.coordination_score = SyncRateScore
        /\ result.outcome = "committed" =>
              \E m \in metrics :
                  /\ m.time_bucket = HourStart(result.hour)
                  /\ m.coordination_score = SyncRateScore
                  /\ m.active_cluster_count = 0

\* a window whose only edges are synchronized posts was analysed with a
\* sync weight of 0, and the result was stored
C14_Witness ==
    /\ ClusteringRaised
    /\ config = ZeroWeightConfig
    /\ result.outcome = "committed"
    /\ result.value.sync_rate # Zero

\* C15: when the store write of a run fails, the store is afterwards exactly
\* as it was before the run: no metric, cluster or member row of the run is
\* visible.
C15_FailedStoreLeavesNoTrace ==
    [][(runs' = runs + 1 /\ result'.outcome = "rolled_back") =>
          /\ metrics' = metrics
          /\ cluster_rows' = cluster_rows
          /\ member_rows' = member_rows]_vars

\* a run that found a cluster failed to store, and the window has neither a
\* metric nor a cluster row
C15_Witness ==
    /\ Analyzed
    /\ result.outcome = "rolled_back"
    /\ Len(result.value.clusters) > 0
    /\ MetricsFor(metrics, Platform, HourStart(result.hour)) = {}
    /\ WindowClusterRows(result.hour) = <<>>

\* C16: when the store write of a run fails, the caller of analyze_hour gets
\* the failure: the call does not return like a run that was stored.
C16_StoreFailureSurfaced ==
    (Analyzed /\ result.outcome = "rolled_back") => result.raised

NonNegative(x) == RLeq(Zero, x)

\* no weight and no threshold of the config is negative
ValidConfig(cfg) ==
    /\ cfg.sync_window_seconds >= 0
    /\ cfg.min_hashtag_overlap >= 0
    /\ cfg.min_cluster_size >= 0
    /\ NonNegative(cfg.text_similarity_threshold)
    /\ NonNegative(cfg.min_cluster_density)
    /\ NonNegative(cfg.louvain_resolution)
    /\ NonNegative(cfg.sync_weight)
    /\ NonNegative(cfg.url_weight)
    /\ NonNegative(cfg.text_weight)
    /\ NonNegative(cfg.hashtag_weight)
    /\ NonNegative(cfg.reply_pattern_weight)
    /\ NonNegative(cfg.cluster_coverage_weight)
    /\ NonNegative(cfg.density_weight)
    /\ NonNegative(cfg.sync_rate_weight)

\* C17: no window is processed by an analyzer whose config has a negative
\* weight or threshold: such a config is rejected at construction.
C17_NegativeConfigRejected == Analyzed => ValidConfig(config)

ZeroValued(value) ==
    /\ value.coordination_score = Zero
    /\ value.clusters = <<>>
    /\ value.sync_rate = Zero
    /\ value.url_sharing_rate = Zero
    /\ value.text_similarity_rate = Zero

\* C18: when the window has fewer posts than min_cluster_size or its graph
\* has no edge, analyze_hour returns a zero-valued result and the community
\* detection is not run.
C18_ShortCircuit ==
    (Analyzed /\ (\/ Cardinality(HourPosts(result.hour)) < config.min_cluster_size
                  \/ number_of_edges(graph) = 0)) =>
        /\ ZeroValued(result.value)
        /\ ~result.clustered
        /\ result.outcome = "empty"

\* a window with enough posts whose graph was built and has no edge
C18_Witness ==
    /\ Built
    /\ Cardinality(HourPosts(result.hour)) >= config.min_cluster_size
    /\ number_of_edges(graph) = 0
    /\ ~result.clustered

\* C19: after a run that stored its result for a graph with edges, the
\* store holds the window's edges as account_edges rows.
C19_EdgesStored ==
    (Stored /\ number_of_edges(graph) > 0) => Len(edge_rows) > 0

\* two comments of different accounts on one parent, in the analysed window
CommentPair(p, q) ==
    /\ p.post_type = "comment" /\ q.post_type = "comment"
    /\ p.platform = Platform /\ q.platform = Platform
    /\ p.parent_id # NoParent /\ p.parent_id = q.parent_id
    /\ p.account_id # q.account_id
    /\ p.created_at >= HourStart(result.hour) /\ p.created_at < HourStart(result.hour + 1)
    /\ q.created_at >= HourStart(result.hour) /\ q.created_at < HourStart(result.hour + 1)

\* C20: comments feed the reply-pattern signal: in the graph analyze_hour
\* builds, the authors of two comments on one parent are joined by an edge
\* of type reply_pattern.
C20_CommentsLinkRepliers ==
    Built =>
        \A p, q \in posts :
            CommentPair(p, q) =>
                /\ HasEdge(graph, p.account_id, q.account_id)
                /\ "reply_pattern" \in graph.edges[{p.account_id, q.account_id}].types

\* the posts of the window of the last analyze_hour, as the call loaded them
Window == _get_posts_in_window(posts, Platform, HourStart(result.hour),
                               HourStart(result.hour + 1))

AccountPair(res) == {res.evidence.account1, res.evidence.account2}

\* C21: find_url_sharing_pairs emits at most one result per unordered pair
\* of distinct accounts: among the results it returned for the window of
\* the last analyze_hour, no two name the same two accounts.
C21_OneUrlResultPerAccountPair ==
    Built =>
        LET results == find_url_sharing_pairs(PostData(Window))
        IN  \A i, j \in 1..Len(results) :
                i # j => AccountPair(results[i]) # AccountPair(results[j])

\* two posts of different accounts no more than the sync window apart
Synchronized(p, q) ==
    /\ p.account_id # q.account_id
    /\ Abs(p.created_at - q.created_at) <= config.sync_window_seconds

\* C24: _find_synchronized_pairs emits exactly one pair for every two posts
\* of different accounts whose created_at differ by at most
\* sync_window_seconds, and none for any other two posts: the early exit of
\* the scan drops nothing.  The graph carries the synchronized_posting type
\* between exactly the accounts of such posts.
C24_SyncPairsComplete ==
    Built =>
        LET edges == _find_synchronized_pairs(Window, config)
            Emitted(p, q) == {k \in 1..Len(edges) :
                                {edges[k].evidence.post1_id, edges[k].evidence.post2_id}
                                    = {p.id, q.id}}
        IN  /\ \A p, q \in HourPosts(result.hour) :
                    p.id < q.id =>
                        Cardinality(Emitted(p, q)) = IF Synchronized(p, q) THEN 1 ELSE 0
            /\ \A x, y \in graph.nodes :
                    x # y =>
                        ((HasEdge(graph, x, y)
                            /\ "synchronized_posting" \in graph.edges[{x, y}].types)
                         <=> \E p, q \in HourPosts(result.hour) :
                                /\ p.account_id = x /\ q.account_id = y
                                /\ Synchronized(p, q))

\* a window with two posts exactly the sync window apart, which are paired,
\* and two posts of different accounts farther apart
C24_Witness ==
    /\ Built
    /\ \E p, q \in HourPosts(result.hour) :
            /\ p.account_id # q.account_id
            /\ q.created_at - p.created_at = config.sync_window_seconds
            /\ "synchronized_posting" \in graph.edges[{p.account_id, q.account_id}].types
    /\ \E p, q \in HourPosts(result.hour) :
            /\ p.account_id # q.account_id
            /\ q.created_at - p.created_at > config.sync_window_seconds

\* the results of a pair extractor as additions to the graph
FromEdges(edges, edge_type, weight) ==
    [k \in 1..Len(edges) |->
        [pair |-> {edges[k].a1, edges[k].a2}, type |-> edge_type, amount |-> weight,
         evidence |-> edges[k].evidence]]

FromResults(results, weight) ==
    [k \in 1..Len(results) |->
        [pair |-> AccountPair(results[k]), type |-> results[k].similarity_type,
         amount |-> RMul(weight, results[k].similarity_score),
         evidence |-> results[k].evidence]]

\* every signal the extractors found in the window of the last analyze_hour,
\* in the order the graph builder adds them
Additions ==
    FromEdges(_find_synchronized_pairs(Window, config), "synchronized_posting",
              config.sync_weight)
    \o FromResults(find_url_sharing_pairs(PostData(Window)), config.url_weight)
    \o FromResults(find_similar_pairs(PostData(Window), config.text_similarity_threshold),
                   config.text_weight)
    \o FromResults(find_hashtag_overlap_pairs(PostData(Window), config.min_hashtag_overlap),
                   config.hashtag_weight)
    \o FromEdges(_find_reply_pattern_pairs(Window), "reply_pattern",
                 config.reply_pattern_weight)

\* the graph is what the additions add up to: an edge per pair, the
\* types added to it, the sum of the amounts, and per type the evidence of
\* the last addition
BuiltFrom(adds) ==
    /\ DOMAIN graph.edges = {adds[k].pair : k \in 1..Len(adds)}
    /\ \A e \in DOMAIN graph.edges :
          LET mine == {k \in 1..Len(adds) : adds[k].pair = e}
              data == graph.edges[e]
          IN  /\ DOMAIN data.evidence = data.types
              /\ data.types = {adds[k].type : k \in mine}
              /\ data.weight = RSumOver(mine, [k \in 1..Len(adds) |-> adds[k].amount])
              /\ \A t \in data.types :
                    LET last == CHOOSE k \in mine :
                                    /\ adds[k].type = t
                                    /\ \A l \in mine : adds[l].type = t => l <= k
                    IN  data.evidence[t] = adds[last].evidence

\* C25: after the edge additions of the graph builder, every edge's evidence
\* has exactly one entry per type of the edge, the entry of a type is the
\* evidence of the last result of that type on the pair, and the weight is
\* the sum of the added signal_weight x score.
C25_EdgeAccumulates == Built => BuiltFrom(Additions)

\* an edge got two results of one type with different evidence
C25_Witness ==
    /\ Built
    /\ \E k, l \in 1..Len(Additions) :
            /\ k < l
            /\ Additions[k].pair = Additions[l].pair
            /\ Additions[k].type = Additions[l].type
            /\ Additions[k].evidence # Additions[l].evidence
            /\ graph.edges[Additions[k].pair].evidence[Additions[k].type]
                    # Additions[k].evidence

\* 2 x (edges of the graph that carry the type) / (posts of the window)
ExpectedRate(t) ==
    Rat(2 * Cardinality({e \in DOMAIN graph.edges : t \in graph.edges[e].types}),
        Cardinality(HourPosts(result.hour)))

EdgesToMembers(account_id, cluster) ==
    {e \in DOMAIN graph.edges : account_id \in e /\ e \subseteq cluster.members}

\* C27: every cluster-member row a run stores has as edge_count the number
\* of edges between that account and the other members of its cluster.
C27_MemberEdgeCount ==
    Stored =>
        \A i \in 1..Len(result.value.clusters) :
            \A k \in 1..Len(member_rows) :
                member_rows[k].cluster_id = result.value.clusters[i].cluster_id =>
                    member_rows[k].edge_count =
                        Cardinality(EdgesToMembers(member_rows[k].account_id,
                                                   result.value.clusters[i]))

(***************************************************************************)
(* Properties of analyze_range, checked under SpecRange                    *)
(***************************************************************************)
\* the cluster ids of the k-th analyze_hour call
IdsOfRun(k) ==
    {history[k].value.clusters[i].cluster_id : i \in 1..Len(history[k].value.clusters)}

\* C22: when windows are analysed one at a time, every cluster gets a
\* cluster_id different from the ids of the other clusters of its run and
\* from the id of every cluster already persisted.
C22_ClusterIdsUnique ==
    \A k \in 1..Len(history) :
        /\ Cardinality(IdsOfRun(k)) = Len(history[k].value.clusters)
        /\ \A j \in 1..(k - 1) :
              history[j].outcome = "committed" => IdsOfRun(j) \cap IdsOfRun(k) = {}

\* the windows of the analyze_range call: the hours from the hour of start
\* up to, but without, the hour of end
RangeWindows ==
    LET first == call.args[1] \div 3600
        stop == call.args[2] \div 3600
    IN  [k \in 1..(IF stop > first THEN stop - first ELSE 0) |-> HourStart(first + k - 1)]

\* the windows analysed so far are the first windows of the range in
\* increasing order, each analysis was over (returned, stored or rolled
\* back) before the next began, and a call that returned holds one result
\* per window, in that order
RangeInOrder ==
    call.state # "none" =>
        /\ Len(history) <= Len(RangeWindows)
        /\ \A k \in 1..Len(history) :
              /\ HourStart(history[k].hour) = RangeWindows[k]
              /\ k < Len(history) => history[k].outcome \in {"empty", "committed", "rolled_back"}
        /\ \A k \in 1..Len(call.results) :
              /\ call.results[k] = history[k].value
              /\ call.results[k].time_window_start = RangeWindows[k]
        /\ call.state = "returned" => Len(call.results) = Len(RangeWindows)

\* the windows the loop has still to analyse
WindowsLeft(c) == IF c.end > c.current THEN (c.end - c.current) \div 3600 ELSE 0

\* C23: analyze_range analyses the hourly windows from start rounded down to
\* the hour up to, but excluding, end rounded down, one after the other in
\* increasing order, comes to an end, and returns one result per window in
\* that order.  It comes to an end because a call that is running can
\* always take its next step, every pass of the loop leaves one window
\* less to analyse, and with no window left the call returns.
C23_RangeSequential ==
    /\ []RangeInOrder
    /\ [](call.state = "running" => ENABLED RangeProgress)
    /\ [][(call.state = "running" /\ call' # call) =>
              \/ call'.state = "raised"
              \/ call'.state = "returned" /\ WindowsLeft(call) = 0
              \/ call'.state = "running" /\ WindowsLeft(call') = WindowsLeft(call) - 1]_vars

\* a call from the middle of hour 0 returned two results, the first of a
\* stored window
C23_Witness ==
    /\ call.state = "returned"
    /\ call.args[1] = 1800
    /\ Len(call.results) = 2
    /\ history[1].outcome = "committed"

\* C28: a window that short-circuits writes nothing to the store: no metric
\* row is inserted or updated for it, and a metric row an earlier run left
\* for the window keeps its values.
C28_ShortCircuitWritesNothing ==
    [][(runs' = runs + 1 /\ result'.outcome = "empty") =>
          /\ metrics' = metrics
          /\ cluster_rows' = cluster_rows
          /\ member_rows' = member_rows]_vars

\* hour 0 short-circuited and the metric row an earlier run left for it is
\* still there
C28_Witness ==
    /\ Analyzed
    /\ result.outcome = "empty"
    /\ result.hour = 0
    /\ MetricsFor(metrics, Platform, HourStart(0)) = {OldMetric}

\* C30: when the analysis of a window raises in analyze_range, the caller
\* gets the exception, the rows stored for the windows before it stay,
\* nothing of the window is stored, and no later window is analysed.
C30_RangeStopsAtError ==
    [][/\ result'.raised => call'.state = "raised"
       /\ (call.state = "running" /\ call'.state = "raised") =>
              /\ result'.outcome = "aborted"
              /\ metrics' = metrics
              /\ cluster_rows' = cluster_rows
              /\ member_rows' = member_rows
       /\ call.state = "raised" =>
              /\ call' = call
              /\ history' = history
              /\ metrics' = metrics
              /\ cluster_rows' = cluster_rows
              /\ member_rows' = member_rows]_vars

\* the second window raised after the first was stored with a cluster, and
\* the rows of the first are in the store
C30_Witness ==
    /\ call.state = "raised"
    /\ Len(history) = 2
    /\ history[1].outcome = "committed"
    /\ history[2].outcome = "aborted"
    /\ history[1].metric_rows \subseteq metrics
    /\ Len(history[1].window_clusters) > 0
    /\ \A k \in 1..Len(history[1].window_clusters) :
            \E l \in 1..Len(cluster_rows) : cluster_rows[l] = history[1].window_clusters[k]
    /\ MetricsFor(metrics, Platform, HourStart(history[2].hour)) = {}

(***************************************************************************)
(* Properties of interleaved analyze_hour calls, checked under             *)
(* SpecConcurrent                                                          *)
(***************************************************************************)
\* session s commits although a metric row of its window has appeared since
\* its query found none
LateInsert(s) ==
    /\ sessions[s].state = "pending"
    /\ sessions'[s].state = "done"
    /\ ~sessions[s].found
    /\ MetricsFor(metrics, Platform, HourStart(sessions[s].hour)) # {}

\* C29: also when two analyze_hour runs of one window interleave, the store
\* never holds two metric rows for one (platform, time_bucket,
\* bucket_type): the commit of the run that comes second fails on the
\* unique index and its metric, cluster and member writes are rolled back.
C29_NoDuplicateMetric ==
    [][/\ \A h \in Hours : Cardinality(MetricsFor(metrics', Platform, HourStart(h))) <= 1
       /\ \A s \in Sessions :
             LateInsert(s) =>
                /\ result'.outcome = "rolled_back"
                /\ metrics' = metrics
                /\ cluster_rows' = cluster_rows
                /\ member_rows' = member_rows]_vars

\* both sessions analysed one window and found no metric row; the first
\* commit went through, the second, with no cluster to store, was rolled
\* back
C29_Witness ==
    /\ \A s \in Sessions : sessions[s].state = "done" /\ ~sessions[s].found
    /\ sessions["s1"].hour = sessions["s2"].hour
    /\ Len(history) = 2
    /\ history[1].outcome = "committed"
    /\ history[2].outcome = "rolled_back"
    /\ history[2].value.clusters = <<>>
    /\ Cardinality(MetricsFor(metrics, Platform, HourStart(history[2].hour))) = 1

(***************************************************************************)
(* Properties of get_spikes, checked under SpecSpikes.  The reference is   *)
(* stated on the stored rows in exact arithmetic: with the scores as       *)
(* integers S in a common unit and n rows loaded, the deviation of a score *)
(* from the mean is D / n for D = n * S - sum of S, the population         *)
(* variance is (sum of D * D) / n^3, and z >= t compares D * D * n with    *)
(* t * t * (sum of D * D) according to the signs of D and t.               *)
(***************************************************************************)
Called == result.op = "get_spikes"

\* the rows the call loads: the platform's hourly metrics within the lookback
Loaded ==
    {m \in metrics : /\ m.platform = Platform
                     /\ m.bucket_type = "hourly"
                     /\ m.time_bucket >= 60 * clock - 3600 * result.query.hours}

AllEqual == \A m1, m2 \in Loaded : m1.coordination_score = m2.coordination_score

ScoreUnit == LCMOver({m.coordination_score[2] : m \in Loaded})

IntScore(m) == m.coordination_score[1] * (ScoreUnit \div m.coordination_score[2])

IntScoreSum == SumOver(Loaded, [m \in Loaded |-> IntScore(m)])

Deviation(m) == Cardinality(Loaded) * IntScore(m) - IntScoreSum

SquaredDeviations == SumOver(Loaded, [m \in Loaded |-> Deviation(m) * Deviation(m)])

\* t^2 * variance <= (deviation of m)^2, for t = p / q
BeyondThreshold(m, p, q) ==
    p * p * SquaredDeviations <= q * q * Cardinality(Loaded) * Deviation(m) * Deviation(m)

WithinThreshold(m, p, q) ==
    q * q * Cardinality(Loaded) * Deviation(m) * Deviation(m) <= p * p * SquaredDeviations

\* (score of m - mean) / std >= t for the population mean and std of Loaded
ZAtLeast(m, t) ==
    IF t[1] >= 0 THEN Deviation(m) >= 0 /\ BeyondThreshold(m, t[1], t[2])
    ELSE Deviation(m) >= 0 \/ WithinThreshold(m, t[1], t[2])

ExpectedSpikes == {m \in Loaded : ZAtLeast(m, result.query.threshold_std)}

ReturnedBuckets == {result.spikes[i].time_bucket : i \in 1..Len(result.spikes)}

LoadedScores ==
    ScoresOf(LoadedMetrics(metrics, Platform, 60 * clock - 3600 * result.query.hours))

ExactMean == Rat(IntScoreSum, ScoreUnit * Cardinality(Loaded))

ExactVariance ==
    Rat(SquaredDeviations,
        Cardinality(Loaded) * Cardinality(Loaded) * Cardinality(Loaded) * ScoreUnit * ScoreUnit)

IsExactBaseline(mean, std) == mean = ExactMean /\ RMul(std, std) = ExactVariance

\* the floating-point mean and standard deviation of the loaded scores carry
\* no rounding error
ExactBaseline == IsExactBaseline(np_mean(LoadedScores), np_std(LoadedScores))

\* Scenario C: nine scores of 10 and one of 50 are loaded, threshold_std = 2
ScenarioC ==
    /\ Called
    /\ result.query.threshold_std = RInt(2)
    /\ Cardinality(Loaded) = 10
    /\ Cardinality({m \in Loaded : m.coordination_score = RInt(10)}) = 9
    /\ Cardinality({m \in Loaded : m.coordination_score = RInt(50)}) = 1

C8_EqualScoresNoSpikes == (Called /\ AllEqual) => result.spikes = <<>>

\* C9: with fewer than 10 metrics loaded, get_spikes returns the empty list.
C9_FewSamplesNoSpikes == (Called /\ Cardinality(Loaded) < MinSamples) => result.spikes = <<>>

\* nine metrics of differing scores are within the lookback, more are
\* stored, and the threshold is one that scores pass
C9_Witness ==
    /\ Called
    /\ Cardinality(Loaded) = MinSamples - 1
    /\ Cardinality(metrics) > MinSamples
    /\ ~AllEqual
    /\ result.query.threshold_std = RInt(0 - 1)
    /\ result.spikes = <<>>

====
